---- MODULE Spec2Model ----
(***************************************************************************)
(* A model of the Books API test harness: the HTTP client with its retry   *)
(* adapter (utils/api_client.py), the test data generator and its fixture  *)
(* file (utils/test_data_generator.py) and the object-model validator      *)
(* (utils/validators.py).                                                  *)
(*                                                                         *)
(* Its specifications share the module, one per component:                 *)
(*   Spec         one APIClient and the calls made through it              *)
(*   LiveSpec     Spec, with every attempt of a call coming to an end      *)
(*   FixtureSpec  the fixture file and load_test_data_from_file            *)
(*   GenSpec      the payload generators and validate_book_data            *)
(*   ValidSpec    the three validators of APIResponseValidator             *)
(*   AssertSpec   ResponseAsserter.assert_book_content                     *)
(*   ConfigSpec   the import of config.py and Config.validate_config       *)
(*   TestSpec     the test cases and fixtures that create books            *)
(*   CliSpec      the command-line runner run_tests.py                     *)
(***************************************************************************)
EXTENDS Integers, Sequences, FiniteSets, TLC

VARIABLES
    \* ---- HTTP client (utils/api_client.py) ----
    Config,        \* the settings the client reads: API_TIMEOUT, MAX_RETRIES
    client,        \* the APIClient's fields: timeout, max_retries
    pc,            \* position of the current call: idle, sending, returned, raised
    operation,     \* the client operation the current call entered through
    method,        \* HTTP method of the current call
    retry_total,   \* Retry.total left for the current call
    attempts,      \* attempts sent to the server in the current call
    last,          \* what the last attempt was answered with
    result,        \* what _make_request gave its caller
    log,           \* records _make_request logged during the current call
    \* ---- generator and object-model check ----
    genFn,         \* the generator the payload in hand came from
    book_id,       \* the book_id generate_book_data was called with
    invalid_field, \* the mode generate_invalid_book_data was called with
    payload,       \* the payload in hand
    books,         \* the list generate_multiple_books returned last
    validated,     \* validate_book_data has been called on the payload
    violations,    \* what validate_book_data returned
    \* ---- fixture file ----
    file,          \* the fixture file: whether it exists, and its text
    bundle,        \* the bundle load_test_data_from_file returned last
    source,        \* where that bundle came from: loaded, regenerated, fallback
    raised,        \* the last save or load raised to its caller
    generated,     \* the last save or load ran the generators
    lastOp,        \* the last call: save or load
    lastFault,     \* where the last call was made to fail
    persisted,     \* the counts of the bundle the last completed save wrote
    intact,        \* the file still holds what that save wrote
    \* ---- validators (utils/validators.py) ----
    response_data, \* the response body a test holds
    called,        \* the validator called last on it
    verdict,       \* what that call gave its caller
    calls,         \* how many times in a row that validator was called
    \* ---- content assertion (utils/validators.py) ----
    actual,        \* the book_data a test received
    expected,      \* the expected_data it sent
    assertion,     \* how assert_book_content ended: passed, or the exception
    \* ---- configuration (config/config.py) ----
    started,       \* the process has started
    environ,       \* the environment variables of the process
    imported,      \* the import of config.config: no, done, or the exception
    settings,      \* the attributes of class Config
    config_ok,     \* what validate_config returned last
    printed,       \* the lines printed to stdout
    \* ---- test cases (tests/test_books_api.py, tests/conftest.py) ----
    test_case,     \* the test case or fixture that runs
    position,      \* the step it is at
    created_id,    \* the id of the Book it created, or None
    deleted,       \* the ids it has called delete_book for
    body_failed,   \* the body of a test with a yield fixture raised
    test_result,   \* none, running, passed or failed
    failed_at,     \* the step whose exception left the test, or 0
    cleanup,       \* what the last clean-up delete_book call gave
    cleanup_log,   \* the levels logged for that call
    edge_case_data,  \* the case name test_create_book_edge_cases was given
    edge_test_data,  \* the payload it looked up under that name, or None
    requested,     \* the client operations the test has called, in order
    \* ---- command-line runner (run_tests.py) ----
    stage,         \* where main is: idle, install, clean, mkdir, tests, exited
    args,          \* what parse_args returned
    installed,     \* install_dependencies: not run, ok or failed
    clean_failed,  \* the patterns whose rm command failed
    pytest_cmd,    \* the pytest command main built
    success,       \* the test run: not run, ok or failed
    exit_codes,    \* the exit codes of the install and the pytest command
    exit_cause,    \* how the process ended: returned, sys.exit, argparse, exception
    exit_status    \* the exit status of the process

clientVars == <<Config, client, pc, operation, method, retry_total, attempts, last, result, log>>
genVars == <<genFn, book_id, invalid_field, payload, books, validated, violations>>

fixtureVars == <<file, bundle, source, raised, generated, lastOp, lastFault, persisted, intact>>

validVars == <<response_data, called, verdict, calls>>

assertVars == <<actual, expected, assertion>>

configVars == <<started, environ, imported, settings, config_ok, printed>>

testVars ==
    <<test_case, position, created_id, deleted, body_failed, test_result,
      failed_at, cleanup, cleanup_log, edge_case_data, edge_test_data, requested>>

cliVars ==
    <<stage, args, installed, clean_failed, pytest_cmd, success, exit_codes, exit_cause,
      exit_status>>

otherThanClient == <<genVars, fixtureVars, validVars, assertVars, configVars, testVars, cliVars>>
otherThanGen == <<clientVars, fixtureVars, validVars, assertVars, configVars, testVars, cliVars>>
otherThanFixture == <<clientVars, genVars, validVars, assertVars, configVars, testVars, cliVars>>
otherThanValid == <<clientVars, genVars, fixtureVars, assertVars, configVars, testVars, cliVars>>
otherThanAssert == <<clientVars, genVars, fixtureVars, validVars, configVars, testVars, cliVars>>
otherThanConfig == <<clientVars, genVars, fixtureVars, validVars, assertVars, testVars, cliVars>>
otherThanTest == <<clientVars, genVars, fixtureVars, validVars, assertVars, configVars, cliVars>>
otherThanCli == <<clientVars, genVars, fixtureVars, validVars, assertVars, configVars, testVars>>

vars == <<clientVars, genVars, fixtureVars, validVars, assertVars, configVars, testVars, cliVars>>

(***************************************************************************)
(* Python values                                                           *)
(***************************************************************************)

\* An optional argument: None, or a value.
None == <<>>
Some(v) == <<v>>
IsNone(x) == x = <<>>
Val(x) == x[1]

\* `x or d` on an optional integer: None and 0 are falsy.
PyOr(x, d) == IF IsNone(x) \/ Val(x) = 0 THEN d ELSE Val(x)

(***************************************************************************)
(* Text and JSON values                                                    *)
(*                                                                         *)
(* A Python str is a sequence of characters, each written as a one-letter  *)
(* string (a character outside ASCII as "uXXXX").  A JSON value carries    *)
(* its type: IntV(n), StrV(s).   A payload (a dict) is a function from its    *)
(* keys to values.                                                         *)
(***************************************************************************)

IntV(n) == [t |-> "int", v |-> n]
StrV(s) == [t |-> "str", v |-> s]
\* true and false; null; a float, held as its number of halves.
BoolV(b) == [t |-> "bool", v |-> b]
NullV == [t |-> "null", v |-> 0]
FloatV(halves) == [t |-> "float", v |-> halves]
\* A Python list and a Python dict as JSON values.
ListV(s) == [t |-> "list", v |-> s]
DictV(d) == [t |-> "dict", v |-> d]
IsInt(x) == x.t = "int"
IsStr(x) == x.t = "str"

\* c * n
Repeat(c, n) == [i \in 1..n |-> c]

Whitespace == {" ", "\t", "\n", "\r", "\f"}

\* s.strip(): leading and trailing whitespace removed.
RECURSIVE LStrip(_)
LStrip(s) == IF s # <<>> /\ Head(s) \in Whitespace THEN LStrip(Tail(s)) ELSE s
RECURSIVE RStrip(_)
RStrip(s) ==
    IF s # <<>> /\ s[Len(s)] \in Whitespace THEN RStrip(SubSeq(s, 1, Len(s) - 1)) ELSE s
strip(s) == RStrip(LStrip(s))

\* s.replace(old, new) for a one-character old.
RECURSIVE replace(_, _, _)
replace(s, old, new) ==
    IF s = <<>> THEN <<>>
    ELSE (IF Head(s) = old THEN new ELSE <<Head(s)>>) \o replace(Tail(s), old, new)

\* s.split('T')[0]: the text before the first 'T' (all of it when there is none).
RECURSIVE BeforeFirst(_, _)
BeforeFirst(s, c) ==
    IF s = <<>> \/ Head(s) = c THEN <<>> ELSE <<Head(s)>> \o BeforeFirst(Tail(s), c)

Digits == <<"0", "1", "2", "3", "4", "5", "6", "7", "8", "9">>
IsDigit(c) == \E i \in 1..10 : Digits[i] = c
DigitVal(c) == (CHOOSE i \in 1..10 : Digits[i] = c) - 1
AllDigits(s) == \A i \in 1..Len(s) : IsDigit(s[i])

\* int(s) for a text of digits.
RECURSIVE ToNat(_)
ToNat(s) == IF s = <<>> THEN 0 ELSE ToNat(SubSeq(s, 1, Len(s) - 1)) * 10 + DigitVal(s[Len(s)])

\* '%02d' and '%04d'
Pad2(n) == <<Digits[((n \div 10) % 10) + 1], Digits[(n % 10) + 1]>>
Pad4(n) == Pad2(n \div 100) \o Pad2(n % 100)

(***************************************************************************)
(* Dates                                                                   *)
(***************************************************************************)

IsLeap(y) == (y % 4 = 0 /\ y % 100 # 0) \/ y % 400 = 0
DaysInMonth(y, m) ==
    IF m = 2 THEN (IF IsLeap(y) THEN 29 ELSE 28)
    ELSE IF m \in {4, 6, 9, 11} THEN 30 ELSE 31

\* strftime without zero padding ('%Y-%-m-%-d').
strftime_unpadded(d) ==
    Pad4(d.y) \o <<"-">> \o (IF d.m < 10 THEN <<Digits[d.m + 1]>> ELSE Pad2(d.m))
        \o <<"-">> \o (IF d.d < 10 THEN <<Digits[d.d + 1]>> ELSE Pad2(d.d))

\* date.strftime('%Y-%m-%d')
strftime(d) == Pad4(d.y) \o <<"-">> \o Pad2(d.m) \o <<"-">> \o Pad2(d.d)

\* The 'YYYY-MM-DD' that fromisoformat takes as a date.
IsIsoDate(s) ==
    /\ Len(s) = 10
    /\ AllDigits(SubSeq(s, 1, 4)) /\ s[5] = "-"
    /\ AllDigits(SubSeq(s, 6, 7)) /\ s[8] = "-"
    /\ AllDigits(SubSeq(s, 9, 10))
    /\ LET y == ToNat(SubSeq(s, 1, 4))
           m == ToNat(SubSeq(s, 6, 7))
           d == ToNat(SubSeq(s, 9, 10))
       IN  y >= 1 /\ m \in 1..12 /\ d >= 1 /\ d <= DaysInMonth(y, m)

\* 'HH[:MM[:SS[.fff[fff]]]]', the clock part of a time or of a UTC offset.
IsHHMMSSFF(s) ==
    /\ Len(s) \in {2, 5, 8, 12, 15}
    /\ AllDigits(SubSeq(s, 1, 2))
    /\ Len(s) >= 5 => (s[3] = ":" /\ AllDigits(SubSeq(s, 4, 5)))
    /\ Len(s) >= 8 => (s[6] = ":" /\ AllDigits(SubSeq(s, 7, 8)))
    /\ Len(s) >= 12 => (s[9] = "." /\ AllDigits(SubSeq(s, 10, Len(s))))

ClockInRange(s) ==
    /\ ToNat(SubSeq(s, 1, 2)) <= 23
    /\ Len(s) >= 5 => ToNat(SubSeq(s, 4, 5)) <= 59
    /\ Len(s) >= 8 => ToNat(SubSeq(s, 7, 8)) <= 59

\* Position of the first '+' or '-' of s, or 0.
SignAt(s) ==
    IF \E i \in 1..Len(s) : s[i] \in {"+", "-"}
    THEN CHOOSE i \in 1..Len(s) :
             /\ s[i] \in {"+", "-"}
             /\ \A j \in 1..(i - 1) : s[j] \notin {"+", "-"}
    ELSE 0

\* The time part of an ISO text: a clock, then an optional UTC offset.
IsIsoTime(s) ==
    LET p == SignAt(s)
        clock == IF p = 0 THEN s ELSE SubSeq(s, 1, p - 1)
        offset == IF p = 0 THEN <<>> ELSE SubSeq(s, p + 1, Len(s))
    IN  /\ IsHHMMSSFF(clock) /\ ClockInRange(clock)
        /\ p # 0 => (IsHHMMSSFF(offset) /\ ClockInRange(offset))

\* datetime.fromisoformat(s) succeeds: a date, alone or followed by one
\* separator character and a time.
fromisoformat_ok(s) ==
    IF Len(s) < 10 THEN FALSE
    ELSE /\ IsIsoDate(SubSeq(s, 1, 10))
         /\ Len(s) > 10 => (Len(s) > 11 /\ IsIsoTime(SubSeq(s, 12, Len(s))))

(***************************************************************************)
(* Bounds of the model                                                     *)
(***************************************************************************)

\* Largest max_retries a constructor call passes.
MaxRetriesArg == 2
\* Largest timeout a constructor call passes.
MaxTimeoutArg == 1

(***************************************************************************)
(* Configuration (config/config.py)                                        *)
(***************************************************************************)

DefaultTimeout == 30
DefaultMaxRetries == 3

\* MAX_RETRIES as the environment may set it: the default, or no retry.
EnvMaxRetries == {0, DefaultMaxRetries}

ConfigValues == [API_TIMEOUT : {DefaultTimeout}, MAX_RETRIES : EnvMaxRetries]

(***************************************************************************)
(* The retry policy mounted on the session (api_client.py, __init__)       *)
(***************************************************************************)

status_forcelist == {429, 500, 502, 503, 504}
allowed_methods == {"HEAD", "GET", "OPTIONS", "POST", "PUT", "DELETE"}
\* urllib3's Retry.RETRY_AFTER_STATUS_CODES, honoured because
\* respect_retry_after_header is left at its default.
RETRY_AFTER_STATUS_CODES == {413, 429, 503}

\* The verbs APIClient exposes, and the five operations of BooksAPIClient.
Verbs == {"get", "post", "put", "delete"}
BooksOperations ==
    {"get_all_books", "get_book_by_id", "create_book", "update_book", "delete_book"}
Operations == Verbs \cup BooksOperations

\* The HTTP method each operation hands to _make_request.
MethodOf(op) ==
    CASE op \in {"get", "get_all_books", "get_book_by_id"} -> "GET"
      [] op \in {"post", "create_book"} -> "POST"
      [] op \in {"put", "update_book"} -> "PUT"
      [] op \in {"delete", "delete_book"} -> "DELETE"

\* What the server may answer an attempt with.
Statuses == {200, 400, 404, 413, 500, 503}
Responses == [kind : {"response"}, status : Statuses, retry_after : BOOLEAN]
TransportErrors ==
    [kind : {"error"}, err : {"ConnectTimeoutError", "NewConnectionError", "ReadTimeoutError"}]
Outcomes == Responses \cup TransportErrors

NoOutcome == [kind |-> "none"]
NoResult == [kind |-> "none"]

\* is_retry with every error status forced, as if status_forcelist were all
\* of 4xx and 5xx.
is_retry_any_error(m, status, has_retry_after, total) ==
    IF m \notin allowed_methods THEN FALSE
    ELSE IF status >= 400 THEN TRUE
    ELSE /\ total # 0
         /\ has_retry_after
         /\ status \in RETRY_AFTER_STATUS_CODES

\* Retry.is_retry(method, status_code, has_retry_after)
is_retry(m, status, has_retry_after, total) ==
    IF m \notin allowed_methods THEN FALSE
    ELSE IF status \in status_forcelist THEN TRUE
    ELSE /\ total # 0
         /\ has_retry_after
         /\ status \in RETRY_AFTER_STATUS_CODES

\* An increment that spends none of the budget.
increment_free(total) == total

\* Retry.increment: one unit of the budget is spent; Retry.is_exhausted.
increment(total) == total - 1
is_exhausted(total) == total < 0

\* HTTPAdapter.send: the requests exception a MaxRetryError becomes.
AdapterException(outcome) ==
    IF outcome.kind = "response" THEN "RetryError"
    ELSE IF outcome.err = "ConnectTimeoutError" THEN "ConnectTimeout"
    ELSE "ConnectionError"

\* The requests exception hierarchy the except clauses match on.
IsTimeout(e) == e \in {"ConnectTimeout", "ReadTimeout", "Timeout"}
IsConnectionError(e) == e \in {"ConnectTimeout", "ConnectionError"}
IsRequestException(e) ==
    IsTimeout(e) \/ IsConnectionError(e) \/ e \in {"RetryError", "RequestException"}

\* session.request for one attempt's outcome, with `total` left:
\* "retry" (another attempt follows), a returned response, or a raised exception.
SessionStep(m, total, outcome) ==
    IF outcome.kind = "response"
    THEN IF is_retry(m, outcome.status, outcome.retry_after, total)
         THEN IF is_exhausted(increment(total))
              THEN [kind |-> "exception", exc |-> AdapterException(outcome)]
              ELSE [kind |-> "retry"]
         ELSE [kind |-> "response", status |-> outcome.status]
    ELSE IF is_exhausted(increment(total))
         THEN [kind |-> "exception", exc |-> AdapterException(outcome)]
         ELSE [kind |-> "retry"]

(***************************************************************************)
(* APIClient                                                               *)
(***************************************************************************)

\* APIClient.__init__
APIClientInit(timeoutArg, maxRetriesArg, cfg) ==
    [timeout |-> PyOr(timeoutArg, cfg.API_TIMEOUT),
     max_retries |-> PyOr(maxRetriesArg, cfg.MAX_RETRIES)]

\* _make_request with a handler that swallows connection errors: it logs and
\* hands back an empty response instead of re-raising.
MakeRequestResult_swallow(s) ==
    IF s.kind = "response"
    THEN [result |-> [kind |-> "response", status |-> s.status],
          logs |-> <<"debug", "debug", IF s.status >= 400 THEN "warning" ELSE "debug">>]
    ELSE IF IsConnectionError(s.exc) /\ ~IsTimeout(s.exc)
         THEN [result |-> [kind |-> "response", status |-> 0], logs |-> <<"error">>]
         ELSE [result |-> [kind |-> "exception", exc |-> s.exc], logs |-> <<"error">>]

\* _make_request, once session.request has returned or raised: what the caller
\* gets, and what is logged.
MakeRequestResult(s) ==
    IF s.kind = "response"
    THEN [result |-> [kind |-> "response", status |-> s.status],
          logs |-> <<"debug", "debug", IF s.status >= 400 THEN "warning" ELSE "debug">>]
    ELSE IF IsTimeout(s.exc) \/ IsConnectionError(s.exc) \/ IsRequestException(s.exc)
         THEN [result |-> [kind |-> "exception", exc |-> s.exc], logs |-> <<"error">>]
         ELSE [result |-> [kind |-> "exception", exc |-> s.exc], logs |-> <<>>]

TimeoutArgs == {None} \cup {Some(t) : t \in 0..MaxTimeoutArg}
MaxRetriesArgs == {None} \cup {Some(r) : r \in 0..MaxRetriesArg}

\* A test session builds its client: APIClient(timeout, max_retries).
Construct(t, r) ==
    /\ pc = "idle"
    /\ client' = APIClientInit(t, r, Config)
    /\ UNCHANGED <<Config, pc, operation, method, retry_total, attempts, last, result, log>>
    /\ UNCHANGED otherThanClient

\* get / post / put / delete enter _make_request, which calls session.request
\* with a fresh copy of the mounted Retry.
Request(op) ==
    /\ pc = "idle"
    /\ pc' = "sending"
    /\ operation' = op
    /\ method' = MethodOf(op)
    /\ retry_total' = client.max_retries
    /\ attempts' = 0
    /\ last' = NoOutcome
    /\ result' = NoResult
    /\ log' = <<"debug">>
    /\ UNCHANGED <<Config, client>>
    /\ UNCHANGED otherThanClient

\* One attempt inside session.request: the server answers (or the transport
\* fails), and the retry policy decides; when the session is done,
\* _make_request logs and returns or re-raises.
Attempt(outcome) ==
    /\ pc = "sending"
    /\ attempts' = attempts + 1
    /\ last' = outcome
    /\ LET s == SessionStep(method, retry_total, outcome) IN
       IF s.kind = "retry"
       THEN /\ retry_total' = increment(retry_total)
            /\ UNCHANGED <<pc, result, log>>
       ELSE LET r == MakeRequestResult(s) IN
            /\ pc' = IF r.result.kind = "response" THEN "returned" ELSE "raised"
            /\ result' = r.result
            /\ log' = log \o r.logs
            /\ UNCHANGED retry_total
    /\ UNCHANGED <<Config, client, operation, method>>
    /\ UNCHANGED otherThanClient

\* The caller takes the result; the client is ready for the next call.
Finish ==
    /\ pc \in {"returned", "raised"}
    /\ pc' = "idle"
    /\ UNCHANGED <<Config, client, operation, method, retry_total, attempts, last, result, log>>
    /\ UNCHANGED otherThanClient

NoFile == [exists |-> FALSE, content |-> <<>>]
FileWith(text) == [exists |-> TRUE, content |-> text]
NoBundle == [t |-> "none"]

\* The number of entries in each part of a bundle.
Counts(b) ==
    [valid_books |-> Len(b.v.valid_books.v),
     invalid_books |-> Len(b.v.invalid_books.v),
     edge_cases |-> Len(b.v.edge_cases.v)]
NoCounts == [valid_books |-> 0, invalid_books |-> 0, edge_cases |-> 0]

\* No fixture file yet, and nothing loaded.
FixtureIdle ==
    /\ file = NoFile
    /\ bundle = NoBundle
    /\ source = "none"
    /\ raised = FALSE
    /\ generated = FALSE
    /\ lastOp = "none"
    /\ lastFault = "none"
    /\ persisted = NoCounts
    /\ intact = FALSE

\* No response body yet, and no validator called.
ValidIdle ==
    /\ response_data = [t |-> "none", v |-> 0]
    /\ called = "none"
    /\ verdict = [raised |-> FALSE, value |-> "none"]
    /\ calls = 0

\* No payloads to compare yet.
NoContent == [none |-> [t |-> "none", v |-> 0]]
AssertIdle ==
    /\ actual = NoContent
    /\ expected = NoContent
    /\ assertion = "none"

\* The process has not started.
ConfigIdle ==
    /\ started = FALSE
    /\ environ = <<>>
    /\ imported = "no"
    /\ settings = [exc |-> "unbound"]
    /\ config_ok = FALSE
    /\ printed = <<>>

\* No clean-up call was made.
NoCall == [raised |-> FALSE, status |-> 0]

\* No test case runs.
TestIdle ==
    /\ test_case = "none"
    /\ position = 0
    /\ created_id = <<>>
    /\ deleted = {}
    /\ body_failed = FALSE
    /\ test_result = "none"
    /\ failed_at = 0
    /\ cleanup = NoCall
    /\ cleanup_log = <<>>
    /\ edge_case_data = <<>>
    /\ edge_test_data = <<>>
    /\ requested = <<>>

\* run_tests.py has not been started.
NoArgs == [none |-> TRUE]
NotRun == [ran |-> FALSE, code |-> 0]
CliIdle ==
    /\ stage = "idle"
    /\ args = NoArgs
    /\ installed = "not run"
    /\ clean_failed = {}
    /\ pytest_cmd = <<>>
    /\ success = "not run"
    /\ exit_codes = [install |-> NotRun, tests |-> NotRun]
    /\ exit_cause = "none"
    /\ exit_status = 0

\* No payload has been generated.
GenIdle ==
    /\ genFn = "none"
    /\ book_id = None
    /\ invalid_field = "None"
    /\ payload = <<>>
    /\ books = <<>>
    /\ validated = FALSE
    /\ violations = <<>>

ClientInit ==
    /\ Config \in ConfigValues
    /\ \E t \in TimeoutArgs, r \in MaxRetriesArgs : client = APIClientInit(t, r, Config)
    /\ pc = "idle"
    /\ operation = "get"
    /\ method = "GET"
    /\ retry_total = 0
    /\ attempts = 0
    /\ last = NoOutcome
    /\ result = NoResult
    /\ log = <<>>

\* A client built from the defaults, with no call made.
ClientIdle ==
    /\ Config = [API_TIMEOUT |-> DefaultTimeout, MAX_RETRIES |-> DefaultMaxRetries]
    /\ client = APIClientInit(None, None, Config)
    /\ pc = "idle"
    /\ operation = "get"
    /\ method = "GET"
    /\ retry_total = 0
    /\ attempts = 0
    /\ last = NoOutcome
    /\ result = NoResult
    /\ log = <<>>

Init == ClientInit /\ GenIdle /\ FixtureIdle /\ ValidIdle /\ AssertIdle /\ ConfigIdle /\ TestIdle /\ CliIdle

Next ==
    \/ \E t \in TimeoutArgs, r \in MaxRetriesArgs : Construct(t, r)
    \/ \E op \in Operations : Request(op)
    \/ \E o \in Outcomes : Attempt(o)
    \/ Finish

Spec == Init /\ [][Next]_vars

\* session.request blocks its caller until the attempt under way has ended:
\* the server answers, or the per-attempt timeout or the transport fails it.
LiveSpec == Spec /\ WF_vars(\E o \in Outcomes : Attempt(o))

(***************************************************************************)
(* Properties of the HTTP client                                           *)
(***************************************************************************)

\* The current call is over: _make_request returned or raised.
CallOver == pc \in {"returned", "raised"}

\* How session.request ended the call that is over.
SessionEnd == SessionStep(method, retry_total, last)

\* C1: whenever the server's answer to a call is a 4xx or 5xx status, also
\* when every attempt was answered with a status of the forcelist, the call
\* returns that response to its caller and raises nothing.
C1_ErrorStatusIsReturned ==
    (CallOver /\ last.kind = "response" /\ last.status >= 400)
        => (pc = "returned" /\ result = [kind |-> "response", status |-> last.status])

\* C2: when session.request raises a timeout, a connection error or another
\* request exception, the operation entered through (a verb or one of the five
\* Books operations) ends by raising that same exception, and the last record
\* logged is at error level; the exception is never turned into a response.
C2_TransportErrorReRaised ==
    (CallOver /\ SessionEnd.kind = "exception")
        => /\ pc = "raised"
           /\ result = [kind |-> "exception", exc |-> SessionEnd.exc]
           /\ IsRequestException(result.exc)
           /\ log[Len(log)] = "error"

\* A Books operation has ended with the connection error the session raised
\* after its retries.
C2_Witness ==
    /\ pc = "raised"
    /\ operation \in BooksOperations
    /\ last.kind = "error"
    /\ result.kind = "exception"
    /\ attempts >= 2

\* A step that sends a further attempt of the current call.
FurtherAttempt == pc = "sending" /\ attempts >= 1 /\ attempts' = attempts + 1

\* C3 as stated: a further attempt is made only after a response whose status
\* is in {429, 500, 502, 503, 504}, and a response with any other status that
\* answers the first attempt is returned after that one attempt.
C3_RetryOnlyOnForcelist ==
    /\ [][FurtherAttempt =>
            (last.kind = "response" /\ last.status \in status_forcelist)]_vars
    /\ []((attempts = 1 /\ last.kind = "response"
              /\ last.status \notin status_forcelist)
            => (pc \in {"returned", "idle"}
                /\ result = [kind |-> "response", status |-> last.status]))

\* The answers after which the mounted policy sends a further attempt.
Retryable(o) ==
    \/ o.kind = "error"
    \/ /\ o.kind = "response"
       /\ \/ o.status \in status_forcelist
          \/ o.status = 413 /\ o.retry_after

\* C3 as amended: a further attempt is made only after a transport failure, a
\* response whose status is in {429, 500, 502, 503, 504}, or a 413 response
\* that carries a Retry-After header; any other response is returned at once,
\* after exactly one attempt when it answers the first attempt.
C3_RetryOnlyOnRetryable ==
    /\ [][FurtherAttempt => Retryable(last)]_vars
    /\ []((attempts >= 1 /\ ~Retryable(last))
            => (pc \in {"returned", "idle"}
                /\ result = [kind |-> "response", status |-> last.status]))

\* A call that was answered 500 and then 404 has returned the 404 after two
\* attempts.
C3_Witness ==
    /\ pc = "returned"
    /\ attempts = 2
    /\ result = [kind |-> "response", status |-> 404]

\* C25: every request terminates: a call sends at most max_retries + 1
\* attempts, nothing but its own attempts happens while it is under way, it
\* raises only once the retry budget is exhausted, and a call under way
\* eventually returns or raises.
C25_EveryRequestTerminates ==
    /\ [](pc # "idle" => attempts <= client.max_retries + 1)
    /\ [][pc = "sending" => (attempts' = attempts + 1 /\ UNCHANGED client)]_vars
    /\ [](pc = "raised" =>
            (attempts = client.max_retries + 1 /\ is_exhausted(increment(retry_total))))
    /\ (pc = "sending") ~> CallOver

\* A call has raised after its first attempt and MaxRetriesArg retries, the
\* whole budget the constructor was given.
C25_Witness ==
    /\ pc = "raised"
    /\ client.max_retries = MaxRetriesArg
    /\ attempts = MaxRetriesArg + 1
    /\ retry_total = 0

\* C26: a client constructed with explicit arguments uses exactly those
\* values, max_retries = 0 (no retry) included; the configured defaults are
\* used only for an argument that is omitted.
C26_ExplicitArgumentsUsed ==
    [][\A t \in TimeoutArgs, r \in MaxRetriesArgs :
          Construct(t, r) =>
              /\ client'.timeout = (IF IsNone(t) THEN Config.API_TIMEOUT ELSE Val(t))
              /\ client'.max_retries = (IF IsNone(r) THEN Config.MAX_RETRIES ELSE Val(r))]_vars

(***************************************************************************)
(* Test data generator (utils/test_data_generator.py)                      *)
(***************************************************************************)

RequiredFields == {"id", "title", "description", "pageCount", "excerpt", "publishDate"}

\* What the random sources may give one generate_book_data call: the ends
\* of random.randint(1000, 9999) and random.randint(50, 1000), Faker catch
\* phrases and texts, and dates date_between('-10y', 'today') may return.
IdChoices == <<1000, 9999>>
PageChoices == <<50, 1000>>
CatchPhrases == <<<<"A", "d", "a", "p", "t", "i", "v", "e", " ", "h", "u", "b">>, <<"O", "p", "e", "n", "-", "s", "o", "u", "r", "c", "e", " ", "a", "r", "r", "a", "y">>>>
Texts200 == <<<<"S", "i", "t", " ", "a", "m", "e", "t", ".", "\n", "D", "o", "l", "o", "r", ".">>>>
Texts500 == <<<<"Q", "u", "i", "a", " ", "d", "o", "l", "o", "r", " ", "s", "i", "t", ".", "\n", "A", "m", "e", "t", ".">>>>
PastDates == <<[y |-> 2016, m |-> 11, d |-> 7], [y |-> 2024, m |-> 2, d |-> 29],
               [y |-> 2026, m |-> 11, d |-> 6]>>

NumDraws == (Len(IdChoices) * Len(PageChoices) * Len(CatchPhrases)
             * Len(Texts200) * Len(Texts500) * Len(PastDates))

\* The n-th combination of what the random sources give.
DrawAt(n) ==
    [id |-> IdChoices[(n % 2) + 1],
     pages |-> PageChoices[((n \div 2) % 2) + 1],
     title |-> CatchPhrases[((n \div 4) % 2) + 1],
     description |-> Texts200[1],
     excerpt |-> Texts500[1],
     date |-> PastDates[((n \div 8) % 3) + 1]]

\* generate_book_data(book_id), with rnd what the random sources give.
generate_book_data(bid, rnd) ==
    [id |-> IntV(IF IsNone(bid) THEN rnd.id ELSE Val(bid)),
     title |-> StrV(rnd.title),
     description |-> StrV(rnd.description),
     pageCount |-> IntV(rnd.pages),
     excerpt |-> StrV(rnd.excerpt),
     publishDate |-> StrV(strftime(rnd.date))]

\* dict.pop(key, None) for each key of keys.
Pop(d, keys) == [k \in DOMAIN d \ keys |-> d[k]]
\* d[key] = value for each key of the record upd.
Update(d, upd) == [k \in DOMAIN d \cup DOMAIN upd |-> IF k \in DOMAIN upd THEN upd[k] ELSE d[k]]

InvalidModes ==
    {"missing_required", "wrong_types", "empty_values", "negative_values", "invalid_date"}
\* invalid_field as callers pass it: a named mode, nothing, or another text.
InvalidFieldArgs == InvalidModes \cup {"None", "unknown_mode"}

\* generate_invalid_book_data whose negative_values mode negates the id only.
generate_invalid_book_data_half(mode, rnd) ==
    LET valid_data == generate_book_data(None, rnd) IN
    CASE mode = "missing_required" ->
            Pop(valid_data, {"title", "description", "pageCount"})
      [] mode = "wrong_types" ->
            Update(valid_data, [id |-> StrV(<<"n", "o", "t", "_", "a", "n", "_", "i", "n", "t", "e", "g", "e", "r">>),
                                pageCount |-> StrV(<<"n", "o", "t", "_", "a", "_", "n", "u", "m", "b", "e", "r">>),
                                title |-> IntV(12345)])
      [] mode = "empty_values" ->
            Update(valid_data, [title |-> StrV(<<>>), description |-> StrV(<<>>),
                                excerpt |-> StrV(<<>>)])
      [] mode = "negative_values" ->
            Update(valid_data, [id |-> IntV(-1), pageCount |-> IntV(100)])
      [] mode = "invalid_date" ->
            Update(valid_data, [publishDate |-> StrV(<<"i", "n", "v", "a", "l", "i", "d", "-", "d", "a", "t", "e", "-", "f", "o", "r", "m", "a", "t">>)])
      [] OTHER ->
            Update(valid_data, [title |-> StrV(<<>>), pageCount |-> IntV(-50),
                                publishDate |-> StrV(<<"n", "o", "t", "-", "a", "-", "d", "a", "t", "e">>)])

\* generate_invalid_book_data(invalid_field)
generate_invalid_book_data(mode, rnd) ==
    LET valid_data == generate_book_data(None, rnd) IN
    CASE mode = "missing_required" ->
            Pop(valid_data, {"title", "description", "pageCount"})
      [] mode = "wrong_types" ->
            Update(valid_data, [id |-> StrV(<<"n", "o", "t", "_", "a", "n", "_", "i", "n", "t", "e", "g", "e", "r">>),
                                pageCount |-> StrV(<<"n", "o", "t", "_", "a", "_", "n", "u", "m", "b", "e", "r">>),
                                title |-> IntV(12345)])
      [] mode = "empty_values" ->
            Update(valid_data, [title |-> StrV(<<>>), description |-> StrV(<<>>),
                                excerpt |-> StrV(<<>>)])
      [] mode = "negative_values" ->
            Update(valid_data, [id |-> IntV(-1), pageCount |-> IntV(-100)])
      [] mode = "invalid_date" ->
            Update(valid_data, [publishDate |-> StrV(<<"i", "n", "v", "a", "l", "i", "d", "-", "d", "a", "t", "e", "-", "f", "o", "r", "m", "a", "t">>)])
      [] OTHER ->
            Update(valid_data, [title |-> StrV(<<>>), pageCount |-> IntV(-50),
                                publishDate |-> StrV(<<"n", "o", "t", "-", "a", "-", "d", "a", "t", "e">>)])

\* The draw the k-th payload of a run seeded with seed is generated from.
DrawOf(seed, k) == DrawAt(((seed * 37) + (k * 11)) % NumDraws)

\* generate_multiple_books(count)
generate_multiple_books(count, seed) ==
    [i \in 1..count |-> generate_book_data(None, DrawOf(seed, i))]

(***************************************************************************)
(* Object-model check (utils/validators.py, BookSchema)                    *)
(***************************************************************************)

\* A text pydantic takes for an integer field: an optional sign and digits.
IntLike(s) ==
    LET body == IF s # <<>> /\ Head(s) \in {"+", "-"} THEN Tail(s) ELSE s
    IN  body # <<>> /\ AllDigits(body)
ToInt(s) ==
    IF Head(s) = "-" THEN 0 - ToNat(Tail(s))
    ELSE IF Head(s) = "+" THEN ToNat(Tail(s)) ELSE ToNat(s)

\* The field validators: the message each raises, or "" when it accepts v.
validate_id(v) == IF v <= 0 THEN "Book ID must be positive" ELSE ""
validate_title(v) == IF v = <<>> \/ strip(v) = <<>> THEN "Title cannot be empty" ELSE ""
validate_description(v) ==
    IF v = <<>> \/ strip(v) = <<>> THEN "Description cannot be empty" ELSE ""
validate_page_count(v) == IF v <= 0 THEN "Page count must be positive" ELSE ""
validate_excerpt(v) == ""
validate_publish_date(v) ==
    IF fromisoformat_ok(replace(v, "Z", <<"+", "0", "0", ":", "0", "0">>)) THEN ""
    ELSE "Invalid date format. Expected ISO format"

FieldValidator(f, v) ==
    CASE f = "id" -> validate_id(v)
      [] f = "title" -> validate_title(v)
      [] f = "description" -> validate_description(v)
      [] f = "pageCount" -> validate_page_count(v)
      [] f = "excerpt" -> validate_excerpt(v)
      [] f = "publishDate" -> validate_publish_date(v)

IntFields == {"id", "pageCount"}

\* The error BookSchema reports for field f of book_data, or "".
FieldError(book_data, f) ==
    IF f \notin DOMAIN book_data THEN "Field required"
    ELSE LET x == book_data[f] IN
         IF f \in IntFields
         THEN IF IsInt(x) THEN FieldValidator(f, x.v)
              ELSE IF IsStr(x) /\ IntLike(x.v) THEN FieldValidator(f, ToInt(x.v))
              ELSE IF x.t = "bool" THEN FieldValidator(f, IF x.v THEN 1 ELSE 0)
              ELSE IF x.t = "float" /\ x.v % 2 = 0 THEN FieldValidator(f, x.v \div 2)
              ELSE "Input should be a valid integer"
         ELSE IF IsStr(x) THEN FieldValidator(f, x.v)
              ELSE "Input should be a valid string"

\* BookSchema(**book_data): the errors of the ValidationError it raises.
BookSchemaErrors(book_data) ==
    {<<f, FieldError(book_data, f)>> : f \in {g \in RequiredFields : FieldError(book_data, g) # ""}}

\* BookSchema(**book_data): the exception it raises, with its errors.
BookSchema(book_data) ==
    IF book_data.t # "dict"
    THEN [exc |-> "TypeError", errors |-> {<<"**", "argument after ** must be a mapping">>}]
    ELSE LET errors == BookSchemaErrors(book_data.v)
         IN  IF errors = {} THEN [exc |-> "none", errors |-> {}]
             ELSE [exc |-> "ValidationError", errors |-> errors]

\* validate_book_data(book_data): [] or [str(e)]
validate_book_data(book_data) ==
    LET e == BookSchema(book_data)
    IN  IF e.exc = "none" THEN <<>> ELSE <<e.errors>>

(***************************************************************************)
(* The generator and the object-model check as a state machine: a test     *)
(* generates a payload, and may validate it.                               *)
(***************************************************************************)

\* Largest book_id a caller passes (the smallest is -1).
MaxBookIdArg == 1
\* Largest count passed to generate_multiple_books.
MaxCount == 2
\* Seeds of the random sources run from 0 to MaxSeed.
MaxSeed == 2

BookIdArgs == {None} \cup {Some(i) : i \in (0 - 1)..MaxBookIdArg}

\* generate_book_data(book_id) is called.
GenerateBook(bid, n) ==
    /\ genFn' = "generate_book_data"
    /\ book_id' = bid
    /\ invalid_field' = "None"
    /\ payload' = generate_book_data(bid, DrawAt(n))
    /\ validated' = FALSE
    /\ violations' = <<>>
    /\ UNCHANGED books
    /\ UNCHANGED otherThanGen

\* generate_invalid_book_data(invalid_field) is called.
GenerateInvalid(mode, n) ==
    /\ genFn' = "generate_invalid_book_data"
    /\ book_id' = None
    /\ invalid_field' = mode
    /\ payload' = generate_invalid_book_data(mode, DrawAt(n))
    /\ validated' = FALSE
    /\ violations' = <<>>
    /\ UNCHANGED books
    /\ UNCHANGED otherThanGen

\* generate_multiple_books(count) is called.
GenerateMultiple(count, seed) ==
    /\ books' = generate_multiple_books(count, seed)
    /\ UNCHANGED <<genFn, book_id, invalid_field, payload, validated, violations>>
    /\ UNCHANGED otherThanGen

\* The caller takes one element of the list generate_multiple_books returned.
TakeBook(i) ==
    /\ i \in 1..Len(books)
    /\ genFn' = "generate_multiple_books"
    /\ book_id' = None
    /\ invalid_field' = "None"
    /\ payload' = books[i]
    /\ validated' = FALSE
    /\ violations' = <<>>
    /\ UNCHANGED books
    /\ UNCHANGED otherThanGen

\* validate_book_data(payload) is called.
Validate ==
    /\ genFn # "none"
    /\ ~validated
    /\ validated' = TRUE
    /\ violations' = validate_book_data(DictV(payload))
    /\ UNCHANGED <<genFn, book_id, invalid_field, payload, books>>
    /\ UNCHANGED otherThanGen

GenInit == GenIdle /\ ClientIdle /\ FixtureIdle /\ ValidIdle /\ AssertIdle /\ ConfigIdle /\ TestIdle /\ CliIdle

GenNext ==
    \/ \E bid \in BookIdArgs, n \in 0..(NumDraws - 1) : GenerateBook(bid, n)
    \/ \E mode \in InvalidFieldArgs, n \in 0..(NumDraws - 1) : GenerateInvalid(mode, n)
    \/ \E count \in 0..MaxCount, seed \in 0..MaxSeed : GenerateMultiple(count, seed)
    \/ \E i \in 1..MaxCount : TakeBook(i)
    \/ Validate

GenSpec == GenInit /\ [][GenNext]_vars

(***************************************************************************)
(* Properties of the generator                                             *)
(***************************************************************************)

\* The payload in hand came from generate_book_data or is an element of
\* what generate_multiple_books returned.
GeneratedValid == genFn \in {"generate_book_data", "generate_multiple_books"}

\* C9 as stated: for every payload returned by generate_book_data, and every
\* element returned by generate_multiple_books, validate_book_data returns an
\* empty violation list.
C9_GeneratedPassesValidation ==
    (GeneratedValid /\ validated) => violations = <<>>

\* C9 as amended: the same, for generate_book_data called without a book_id
\* or with a book_id > 0 (generate_multiple_books passes none).
C9_GeneratedWithPositiveIdPassesValidation ==
    (GeneratedValid /\ validated /\ (IsNone(book_id) \/ Val(book_id) > 0))
        => violations = <<>>

\* A payload generated for a leap day, with no book_id given, was validated
\* and found free of violations.
C9_Witness ==
    /\ genFn = "generate_book_data"
    /\ IsNone(book_id)
    /\ payload.publishDate = StrV(<<"2", "0", "2", "4", "-", "0", "2", "-", "2", "9">>)
    /\ validated
    /\ violations = <<>>

IsNegativeInt(x) == IsInt(x) /\ x.v < 0

\* C10: every payload returned by generate_invalid_book_data shows the
\* corruption of the mode requested: with "missing_required" at least one of
\* the six required fields is absent, with "negative_values" id < 0 and
\* pageCount < 0 (and likewise wrong types, empty texts and a malformed date
\* for the three other named modes).
C10_InvalidShowsRequestedCorruption ==
    genFn = "generate_invalid_book_data" =>
        /\ invalid_field = "missing_required" =>
               \E f \in RequiredFields : f \notin DOMAIN payload
        /\ invalid_field = "negative_values" =>
               /\ RequiredFields \subseteq DOMAIN payload
               /\ IsNegativeInt(payload.id)
               /\ IsNegativeInt(payload.pageCount)
        /\ invalid_field = "wrong_types" =>
               IsStr(payload.id) /\ IsStr(payload.pageCount) /\ IsInt(payload.title)
        /\ invalid_field = "empty_values" =>
               /\ payload.title = StrV(<<>>)
               /\ payload.description = StrV(<<>>)
               /\ payload.excerpt = StrV(<<>>)
        /\ invalid_field = "invalid_date" =>
               /\ IsStr(payload.publishDate)
               /\ ~fromisoformat_ok(payload.publishDate.v)

\* A payload of mode "negative_values" was generated and validation reported
\* its id and its pageCount.
C10_Witness ==
    /\ genFn = "generate_invalid_book_data"
    /\ invalid_field = "negative_values"
    /\ payload.id = IntV(-1)
    /\ payload.pageCount = IntV(-100)
    /\ validated
    /\ violations = << {<<"id", "Book ID must be positive">>,
                        <<"pageCount", "Page count must be positive">>} >>

(***************************************************************************)
(* Edge cases, and the fixture bundle (utils/test_data_generator.py)       *)
(***************************************************************************)

\* A list of dicts.
DictList(s) == ListV([i \in DOMAIN s |-> DictV(s[i])])

special_chars ==
    <<"uCE68", "uCE58", "uCE60", "uCE64", "uCE69", "uCE70", "@", "#", "$", "%", "^",
      "&", "*", "(", ")", "_", "+", "-", "=", "[", "]", "{", "}", "|", ";", "'", ":",
      "\"", ",", ".", "/", "<", ">", "?">>
unicode_text ==
    <<"U", "n", "i", "c", "o", "d", "e", ":", " ", "u64D4", "uBA3C", "uBD0F", "u75B8",
      "uB4AA", "uB3B3", " ", "u6E38", "uAE74", " ", "u6E38", " ", "u6E38", "uB2C4">>
sql_injection ==
    <<"'", ";", " ", "D", "R", "O", "P", " ", "T", "A", "B", "L", "E", " ", "b", "o",
      "o", "k", "s", ";", " ", "-", "-">>
xss_attempt ==
    <<"<", "s", "c", "r", "i", "p", "t", ">", "a", "l", "e", "r", "t", "(", "'", "X",
      "S", "S", "'", ")", "<", "/", "s", "c", "r", "i", "p", "t", ">">>

\* The very long strings of the first edge case.
long_title == Repeat("A", 1000)
long_description == Repeat("B", 2000)
long_excerpt == Repeat("C", 5000)

\* generate_edge_case_data(), with today what datetime.now() gives.
generate_edge_case_data(seed, today) ==
    LET now == StrV(strftime(today))
        rid(k) == IntV(DrawOf(seed, k).id)
    IN  << [name |-> StrV(<<"v", "e", "r", "y", "_", "l", "o", "n", "g", "_", "s", "t", "r", "i", "n", "g", "s">>),
            data |-> DictV([id |-> rid(11),
                            title |-> StrV(long_title),
                            description |-> StrV(long_description),
                            pageCount |-> IntV(500),
                            excerpt |-> StrV(long_excerpt),
                            publishDate |-> now])],
           [name |-> StrV(<<"s", "p", "e", "c", "i", "a", "l", "_", "c", "h", "a", "r", "a", "c", "t", "e", "r", "s">>),
            data |-> DictV([id |-> rid(12),
                            title |-> StrV(<<"B", "o", "o", "k", " ", "w", "i", "t", "h", " ">> \o special_chars),
                            description |-> StrV(<<"D", "e", "s", "c", "r", "i", "p", "t", "i", "o", "n", " ", "w", "i", "t", "h", " ">> \o special_chars),
                            pageCount |-> IntV(300),
                            excerpt |-> StrV(<<"E", "x", "c", "e", "r", "p", "t", " ", "w", "i", "t", "h", " ">> \o special_chars),
                            publishDate |-> now])],
           [name |-> StrV(<<"e", "x", "t", "r", "e", "m", "e", "_", "v", "a", "l", "u", "e", "s">>),
            data |-> DictV([id |-> IntV(999999999),
                            title |-> StrV(<<"B", "o", "o", "k", " ", "w", "i", "t", "h", " ", "e", "x", "t", "r", "e", "m", "e", " ", "v", "a", "l", "u", "e", "s">>),
                            description |-> StrV(<<"D", "e", "s", "c", "r", "i", "p", "t", "i", "o", "n">>),
                            pageCount |-> IntV(999999),
                            excerpt |-> StrV(<<"E", "x", "c", "e", "r", "p", "t">>),
                            publishDate |-> StrV(<<"1", "9", "0", "0", "-", "0", "1", "-", "0", "1", "T", "0", "0", ":", "0", "0", ":", "0", "0", ".", "0", "0", "0", "Z">>)])],
           [name |-> StrV(<<"u", "n", "i", "c", "o", "d", "e", "_", "c", "h", "a", "r", "a", "c", "t", "e", "r", "s">>),
            data |-> DictV([id |-> rid(13),
                            title |-> StrV(unicode_text),
                            description |-> StrV(<<"D", "e", "s", "c", "r", "i", "p", "t", "i", "o", "n", " ", "w", "i", "t", "h", " ">> \o unicode_text),
                            pageCount |-> IntV(400),
                            excerpt |-> StrV(<<"E", "x", "c", "e", "r", "p", "t", " ", "w", "i", "t", "h", " ">> \o unicode_text),
                            publishDate |-> now])],
           [name |-> StrV(<<"s", "q", "l", "_", "i", "n", "j", "e", "c", "t", "i", "o", "n">>),
            data |-> DictV([id |-> rid(14),
                            title |-> StrV(sql_injection),
                            description |-> StrV(<<"D", "e", "s", "c", "r", "i", "p", "t", "i", "o", "n", " ", "w", "i", "t", "h", " ">> \o sql_injection),
                            pageCount |-> IntV(250),
                            excerpt |-> StrV(<<"E", "x", "c", "e", "r", "p", "t", " ", "w", "i", "t", "h", " ">> \o sql_injection),
                            publishDate |-> now])],
           [name |-> StrV(<<"x", "s", "s", "_", "a", "t", "t", "e", "m", "p", "t">>),
            data |-> DictV([id |-> rid(15),
                            title |-> StrV(xss_attempt),
                            description |-> StrV(<<"D", "e", "s", "c", "r", "i", "p", "t", "i", "o", "n", " ", "w", "i", "t", "h", " ">> \o xss_attempt),
                            pageCount |-> IntV(350),
                            excerpt |-> StrV(<<"E", "x", "c", "e", "r", "p", "t", " ", "w", "i", "t", "h", " ">> \o xss_attempt),
                            publishDate |-> now])] >>

\* The bundle save_test_data_to_file builds.
TestData(seed, today) ==
    DictV([valid_books |-> DictList(generate_multiple_books(5, seed)),
     invalid_books |-> DictList(<<
         generate_invalid_book_data("missing_required", DrawOf(seed, 6)),
         generate_invalid_book_data("wrong_types", DrawOf(seed, 7)),
         generate_invalid_book_data("empty_values", DrawOf(seed, 8)) >>),
     edge_cases |-> DictList(generate_edge_case_data(seed, today))])

\* __generate_fallback_data that keeps every edge case.
_generate_fallback_data_all_edges(seed, today) ==
    DictV([valid_books |-> DictList(generate_multiple_books(3, seed + 1)),
     invalid_books |-> DictList(<<
         generate_invalid_book_data("missing_required", DrawOf(seed + 1, 6)),
         generate_invalid_book_data("wrong_types", DrawOf(seed + 1, 7)) >>),
     edge_cases |-> DictList(generate_edge_case_data(seed + 1, today))])

\* __generate_fallback_data(); the random sources have moved on since the
\* bundle of the failed save was drawn.
_generate_fallback_data(seed, today) ==
    DictV([valid_books |-> DictList(generate_multiple_books(3, seed + 1)),
     invalid_books |-> DictList(<<
         generate_invalid_book_data("missing_required", DrawOf(seed + 1, 6)),
         generate_invalid_book_data("wrong_types", DrawOf(seed + 1, 7)) >>),
     edge_cases |-> DictList(SubSeq(generate_edge_case_data(seed + 1, today), 1, 2))])

(***************************************************************************)
(* JSON text.  The file holds the text json.dump writes, as a sequence of  *)
(* tokens: the brackets, the keys, and the numbers and strings.            *)
(***************************************************************************)

Punct(c) == [k |-> c]
KeyTok(name) == [k |-> "key", v |-> name]
IntTok(n) == [k |-> "int", v |-> n]
StrTok(s) == [k |-> "str", v |-> s]

\* The order in which the dicts of a bundle were filled, which json.dump keeps.
KeyOrder ==
    <<"valid_books", "invalid_books", "edge_cases", "name", "data",
      "id", "title", "description", "pageCount", "excerpt", "publishDate">>
KeysOf(d) == SelectSeq(KeyOrder, LAMBDA key : key \in DOMAIN d)

RECURSIVE DumpValue(_)
RECURSIVE DumpDict(_, _)
RECURSIVE DumpItems(_)

\* The members of dict d named by keys.
DumpDict(d, keys) ==
    IF keys = <<>> THEN <<>>
    ELSE <<KeyTok(Head(keys))>> \o DumpValue(d[Head(keys)]) \o DumpDict(d, Tail(keys))

\* The items of a list.
DumpItems(s) ==
    IF s = <<>> THEN <<>> ELSE DumpValue(Head(s)) \o DumpItems(Tail(s))

DumpValue(x) ==
    CASE x.t = "int" -> <<IntTok(x.v)>>
      [] x.t = "str" -> <<StrTok(x.v)>>
      [] x.t = "list" -> <<Punct("[")>> \o DumpItems(x.v) \o <<Punct("]")>>
      [] x.t = "dict" -> <<Punct("{")>> \o DumpDict(x.v, KeysOf(x.v)) \o <<Punct("}")>>

\* json.dump that loses the first edge case.
JsonDump_lossy(test_data) ==
    DumpValue(DictV([test_data.v EXCEPT !.edge_cases = ListV(Tail(@.v))]))

\* json.dump(test_data, f)
JsonDump(test_data) == DumpValue(test_data)

ParseFail == [ok |-> FALSE]

RECURSIVE ParseValue(_)
RECURSIVE ParseItems(_, _)
RECURSIVE ParseMembers(_, _)

\* The items of a list up to its "]", after the items acc.
ParseItems(ts, acc) ==
    IF ts = <<>> THEN ParseFail
    ELSE IF Head(ts).k = "]" THEN [ok |-> TRUE, val |-> ListV(acc), rest |-> Tail(ts)]
    ELSE LET r == ParseValue(ts) IN
         IF r.ok THEN ParseItems(r.rest, Append(acc, r.val)) ELSE ParseFail

\* The members of a dict up to its "}", after the members acc.
ParseMembers(ts, acc) ==
    IF ts = <<>> THEN ParseFail
    ELSE IF Head(ts).k = "}" THEN [ok |-> TRUE, val |-> DictV(acc), rest |-> Tail(ts)]
    ELSE IF Head(ts).k # "key" THEN ParseFail
    ELSE LET r == ParseValue(Tail(ts)) IN
         IF r.ok THEN ParseMembers(r.rest, (Head(ts).v :> r.val) @@ acc) ELSE ParseFail

ParseValue(ts) ==
    IF ts = <<>> THEN ParseFail
    ELSE LET h == Head(ts) IN
         CASE h.k = "int" -> [ok |-> TRUE, val |-> IntV(h.v), rest |-> Tail(ts)]
           [] h.k = "str" -> [ok |-> TRUE, val |-> StrV(h.v), rest |-> Tail(ts)]
           [] h.k = "[" -> ParseItems(Tail(ts), <<>>)
           [] h.k = "{" -> ParseMembers(Tail(ts), <<>>)
           [] OTHER -> ParseFail

\* json.load(f): the value read, or a JSONDecodeError.
JsonLoad(text) ==
    LET r == ParseValue(text) IN
    IF r.ok /\ r.rest = <<>> THEN [ok |-> TRUE, val |-> r.val] ELSE ParseFail

(***************************************************************************)
(* The fixture file                                                        *)
(***************************************************************************)

\* Where a call may fail: creating the directory, opening the file for
\* writing, part-way through json.dump, opening the file for reading.
Faults == {"none", "mkdir", "open_w", "dump", "open_r"}
PersistFaults == {"mkdir", "open_w", "dump"}

\* What a json.dump that fails part-way leaves behind: the start of the text.
Partial(text) == SubSeq(text, 1, Len(text) \div 2)

\* save_test_data_to_file(): whether it raised, the file it leaves, and the
\* bundle it built.
save_test_data_to_file(f, fault, seed, today) ==
    LET test_data == TestData(seed, today) IN
    IF fault \in {"mkdir", "open_w"}
    THEN [raised |-> TRUE, file |-> f, test_data |-> test_data]
    ELSE IF fault = "dump"
    THEN [raised |-> TRUE, file |-> FileWith(Partial(JsonDump(test_data))),
          test_data |-> test_data]
    ELSE [raised |-> FALSE, file |-> FileWith(JsonDump(test_data)),
          test_data |-> test_data]

\* The with-open-json.load block: the bundle read from f, or an exception.
ReadBundle(f, fault) ==
    IF fault = "open_r" THEN ParseFail ELSE JsonLoad(f.content)

Fallback(f, seed, today, saved) ==
    [raised |-> FALSE, file |-> f, bundle |-> _generate_fallback_data(seed, today),
     source |-> "fallback", generated |-> TRUE, saved |-> saved]

\* load_test_data_from_file with no handler around the save and the reads.
load_test_data_from_file_uncaught(f, fault, seed, today) ==
    IF f.exists
    THEN LET r == ReadBundle(f, fault) IN
         IF r.ok
         THEN [raised |-> FALSE, file |-> f, bundle |-> r.val, source |-> "loaded",
               generated |-> FALSE, saved |-> FALSE]
         ELSE [raised |-> TRUE, file |-> f, bundle |-> NoBundle, source |-> "none",
               generated |-> FALSE, saved |-> FALSE]
    ELSE LET s == save_test_data_to_file(f, fault, seed, today) IN
         IF s.raised
         THEN [raised |-> TRUE, file |-> s.file, bundle |-> NoBundle, source |-> "none",
               generated |-> TRUE, saved |-> FALSE]
         ELSE LET r == ReadBundle(s.file, fault) IN
              IF r.ok
              THEN [raised |-> FALSE, file |-> s.file, bundle |-> r.val,
                    source |-> "regenerated", generated |-> TRUE, saved |-> TRUE]
              ELSE [raised |-> TRUE, file |-> s.file, bundle |-> NoBundle,
                    source |-> "none", generated |-> TRUE, saved |-> TRUE]

\* load_test_data_from_file that builds its bundle afresh instead of reading
\* the file it found.
load_test_data_from_file_fresh(f, fault, seed, today) ==
    IF f.exists
    THEN Fallback(f, seed, today, FALSE)
    ELSE LET s == save_test_data_to_file(f, fault, seed, today) IN
         IF s.raised THEN Fallback(s.file, seed, today, FALSE)
         ELSE LET r == ReadBundle(s.file, fault) IN
              IF r.ok
              THEN [raised |-> FALSE, file |-> s.file, bundle |-> r.val,
                    source |-> "regenerated", generated |-> TRUE, saved |-> TRUE]
              ELSE Fallback(s.file, seed, today, TRUE)

\* load_test_data_from_file that saves a new bundle whenever the file it
\* found cannot be read.
load_test_data_from_file_resave(f, fault, seed, today) ==
    LET regenerate ==
            LET s == save_test_data_to_file(f, fault, seed, today) IN
            IF s.raised THEN Fallback(s.file, seed, today, FALSE)
            ELSE LET r == ReadBundle(s.file, fault) IN
                 IF r.ok
                 THEN [raised |-> FALSE, file |-> s.file, bundle |-> r.val,
                       source |-> "regenerated", generated |-> TRUE, saved |-> TRUE]
                 ELSE Fallback(s.file, seed, today, TRUE)
    IN  IF f.exists
        THEN LET r == ReadBundle(f, fault) IN
             IF r.ok
             THEN [raised |-> FALSE, file |-> f, bundle |-> r.val, source |-> "loaded",
                   generated |-> FALSE, saved |-> FALSE]
             ELSE regenerate
        ELSE regenerate

\* load_test_data_from_file(): whether it raised, the file it leaves, the
\* bundle it returns and where that came from, whether the generators ran,
\* and whether a save completed.
load_test_data_from_file(f, fault, seed, today) ==
    IF f.exists
    THEN LET r == ReadBundle(f, fault) IN
         IF r.ok
         THEN [raised |-> FALSE, file |-> f, bundle |-> r.val, source |-> "loaded",
               generated |-> FALSE, saved |-> FALSE]
         ELSE Fallback(f, seed, today, FALSE)
    ELSE LET s == save_test_data_to_file(f, fault, seed, today) IN
         IF s.raised THEN Fallback(s.file, seed, today, FALSE)
         ELSE LET r == ReadBundle(s.file, fault) IN
              IF r.ok
              THEN [raised |-> FALSE, file |-> s.file, bundle |-> r.val,
                    source |-> "regenerated", generated |-> TRUE, saved |-> TRUE]
              ELSE Fallback(s.file, seed, today, TRUE)

\* The runs that may touch the fixture file: each draws its own random
\* values, on the day it runs.
MaxFixtureSeed == 1
FixtureSeeds == 0..MaxFixtureSeed
Todays == {PastDates[2], PastDates[3]}

\* A test run, or a caller, calls save_test_data_to_file().
Save(fault, seed, today) ==
    /\ fault # "open_r"
    /\ LET s == save_test_data_to_file(file, fault, seed, today) IN
       /\ file' = s.file
       /\ raised' = s.raised
       /\ persisted' = IF s.raised THEN persisted ELSE Counts(s.test_data)
       /\ intact' = IF s.raised THEN (intact /\ s.file = file) ELSE TRUE
    /\ lastOp' = "save"
    /\ lastFault' = fault
    /\ generated' = TRUE
    /\ UNCHANGED <<bundle, source>>
    /\ UNCHANGED otherThanFixture

\* The test_data fixture of a run, on a generator of its own, calls
\* load_test_data_from_file().
Load(fault, seed, today) ==
    /\ LET l == load_test_data_from_file(file, fault, seed, today) IN
       /\ file' = l.file
       /\ raised' = l.raised
       /\ bundle' = l.bundle
       /\ source' = l.source
       /\ generated' = l.generated
       /\ persisted' = IF l.saved THEN Counts(TestData(seed, today)) ELSE persisted
       /\ intact' = IF l.saved THEN TRUE ELSE (intact /\ l.file = file)
    /\ lastOp' = "load"
    /\ lastFault' = fault
    /\ UNCHANGED otherThanFixture

FixtureInit == FixtureIdle /\ ClientIdle /\ GenIdle /\ ValidIdle /\ AssertIdle /\ ConfigIdle /\ TestIdle /\ CliIdle

FixtureNext ==
    \/ \E fault \in Faults, seed \in FixtureSeeds, today \in Todays : Save(fault, seed, today)
    \/ \E fault \in Faults, seed \in FixtureSeeds, today \in Todays : Load(fault, seed, today)

FixtureSpec == FixtureInit /\ [][FixtureNext]_vars

(***************************************************************************)
(* Properties of the fixture file                                          *)
(***************************************************************************)

\* json.load reads f without an error.
Readable(f) == f.exists /\ JsonLoad(f.content).ok

\* The value has the three parts of a bundle.
HasThreeKeys(b) ==
    /\ b.t = "dict"
    /\ DOMAIN b.v = {"valid_books", "invalid_books", "edge_cases"}

\* The counts of the bundle a save writes, and of the fallback bundle.
FullCounts == [valid_books |-> 5, invalid_books |-> 3, edge_cases |-> 6]
FallbackCounts == [valid_books |-> 3, invalid_books |-> 2, edge_cases |-> 2]

\* C4, as stated: a load that finds the file present but not valid JSON,
\* and that nothing else hinders, regenerates the full bundle and writes it
\* to the file again, as it does when the file is absent.
C4_UnreadableIsRegenerated ==
    [][(lastOp' = "load" /\ file.exists /\ ~Readable(file) /\ lastFault' = "none")
        => (source' = "regenerated" /\ Readable(file') /\ Counts(bundle') = FullCounts)]_vars

\* C4, amended: a load that finds the file present but unreadable returns
\* the smaller fallback bundle and leaves the file as it found it; the full
\* bundle is regenerated and persisted only when the file is absent, and
\* then the fallback is returned when persisting or reading back fails.
C4_UnreadableFallsBack ==
    [][lastOp' = "load" =>
        /\ (file.exists /\ (~Readable(file) \/ lastFault' = "open_r"))
             => (source' = "fallback" /\ file' = file /\ Counts(bundle') = FallbackCounts)
        /\ source' = "regenerated"
             => (~file.exists /\ Readable(file') /\ Counts(bundle') = FullCounts)
        /\ (~file.exists /\ lastFault' # "none") => source' = "fallback"]_vars

\* A load has found a corrupt file, with nothing else failing, and has
\* returned the fallback bundle.
C4_Witness ==
    /\ lastOp = "load"
    /\ lastFault = "none"
    /\ file.exists
    /\ ~Readable(file)
    /\ source = "fallback"
    /\ Counts(bundle) = FallbackCounts

\* C5: whatever the state of the file and wherever the call is made to
\* fail, load_test_data_from_file raises nothing and returns a bundle with
\* the keys valid_books, invalid_books and edge_cases.
C5_LoadNeverRaises ==
    lastOp = "load" => (~raised /\ HasThreeKeys(bundle))

\* A load whose directory could not be created has returned a bundle.
C5_Witness ==
    /\ lastOp = "load"
    /\ lastFault = "mkdir"
    /\ ~file.exists
    /\ ~raised
    /\ HasThreeKeys(bundle)

\* C6: when the file is absent and persisting the regenerated bundle
\* fails, the load returns, without raising, the fallback bundle of 3
\* valid, 2 invalid and 2 edge cases, each fewer than the 5, 3 and 6 of the
\* bundle a save writes.
C6_FallbackIsSmaller ==
    [][(lastOp' = "load" /\ ~file.exists /\ lastFault' \in PersistFaults)
        => /\ ~raised'
           /\ source' = "fallback"
           /\ Counts(bundle') = FallbackCounts
           /\ \A seed \in FixtureSeeds, today \in Todays :
                /\ Counts(TestData(seed, today)) = FullCounts
                /\ \A part \in DOMAIN FullCounts :
                     Counts(bundle')[part] < Counts(TestData(seed, today))[part]]_vars

\* A load that found no file and could not open one for writing has
\* returned the fallback bundle.
C6_Witness ==
    /\ lastOp = "load"
    /\ lastFault = "open_w"
    /\ ~file.exists
    /\ source = "fallback"
    /\ Counts(bundle) = FallbackCounts

\* C7: a load of the file a completed save wrote returns a bundle with as
\* many valid_books, invalid_books and edge_cases as the bundle written;
\* so does the load that writes the file itself.
C7_RoundTripCounts ==
    [][lastOp' = "load" =>
        /\ (intact /\ lastFault' # "open_r")
             => (source' = "loaded" /\ Counts(bundle') = persisted)
        /\ source' = "regenerated" => Counts(bundle') = persisted']_vars

\* A load after a completed save has returned a bundle of the written size.
C7_Witness ==
    /\ lastOp = "load"
    /\ source = "loaded"
    /\ intact
    /\ persisted = FullCounts
    /\ Counts(bundle) = persisted

\* C8: a load that finds the file present and readable returns the file's
\* content, runs no generator and leaves the file as it is; so a load that
\* follows another load of that file returns an equal bundle.
C8_LoadIsStable ==
    [][(lastOp' = "load" /\ Readable(file) /\ lastFault' # "open_r")
        => /\ source' = "loaded"
           /\ ~generated'
           /\ file' = file
           /\ bundle' = JsonLoad(file.content).val
           /\ (lastOp = "load" /\ source \in {"loaded", "regenerated"})
                => bundle' = bundle]_vars

\* A load has returned the content of a file it found, and generated nothing.
C8_Witness ==
    /\ lastOp = "load"
    /\ source = "loaded"
    /\ ~generated
    /\ Readable(file)
    /\ bundle = JsonLoad(file.content).val

(***************************************************************************)
(* Structural schema check (utils/validators.py, BOOK_SCHEMA and           *)
(* jsonschema.validate)                                                    *)
(***************************************************************************)

\* JSON Schema for a single book.
BOOK_SCHEMA ==
    [type |-> "object",
     properties |->
        [id |-> [type |-> "integer", minimum |-> 1],
         title |-> [type |-> "string", minLength |-> 1],
         description |-> [type |-> "string", minLength |-> 1],
         pageCount |-> [type |-> "integer", minimum |-> 1],
         excerpt |-> [type |-> "string"],
         publishDate |-> [type |-> "string", format |-> "date-time"]],
     required |-> <<"id", "title", "description", "pageCount", "excerpt", "publishDate">>,
     additionalProperties |-> FALSE]

\* A schema for a list that says nothing of its items.
BOOKS_LIST_SCHEMA_any_items == [type |-> "array", minItems |-> 0]

\* JSON Schema for a list of books.
BOOKS_LIST_SCHEMA == [type |-> "array", items |-> BOOK_SCHEMA, minItems |-> 0]

\* The "type" keyword counting a boolean as an integer.
is_type_bool_is_integer(instance, type) ==
    CASE type = "object" -> instance.t = "dict"
      [] type = "array" -> instance.t = "list"
      [] type = "string" -> instance.t = "str"
      [] type = "integer" ->
            instance.t \in {"int", "bool"} \/ (instance.t = "float" /\ instance.v % 2 = 0)
      [] type = "number" -> instance.t \in {"int", "float"}

\* The "type" keyword of jsonschema: a boolean is no number, a float with
\* no fractional part is an integer.
is_type(instance, type) ==
    CASE type = "object" -> instance.t = "dict"
      [] type = "array" -> instance.t = "list"
      [] type = "string" -> instance.t = "str"
      [] type = "integer" ->
            instance.t = "int" \/ (instance.t = "float" /\ instance.v % 2 = 0)
      [] type = "number" -> instance.t \in {"int", "float"}

\* instance >= bound, for an int or a float.
AtLeast(instance, bound) ==
    IF instance.t = "float" THEN instance.v >= 2 * bound ELSE instance.v >= bound

\* RFC 3339 date-time text: YYYY-MM-DDTHH:MM:SS[.fraction](Z|+HH:MM|-HH:MM).
IsDateTime(s) ==
    /\ Len(s) >= 20
    /\ IsIsoDate(SubSeq(s, 1, 10))
    /\ s[11] \in {"T", "t"}
    /\ LET rest == SubSeq(s, 12, Len(s))
           zone == IF rest[Len(rest)] \in {"Z", "z"} THEN 1 ELSE 6
           clock == SubSeq(rest, 1, Len(rest) - zone)
           off == SubSeq(rest, Len(rest) - zone + 1, Len(rest))
       IN  /\ Len(rest) > zone
           /\ Len(clock) >= 8
           /\ AllDigits(<<clock[1], clock[2], clock[4], clock[5], clock[7], clock[8]>>)
           /\ clock[3] = ":" /\ clock[6] = ":"
           /\ ToNat(<<clock[1], clock[2]>>) <= 23
           /\ ToNat(<<clock[4], clock[5]>>) <= 59
           /\ ToNat(<<clock[7], clock[8]>>) <= 59
           /\ Len(clock) > 8 =>
                (Len(clock) >= 10 /\ clock[9] = "." /\ AllDigits(SubSeq(clock, 10, Len(clock))))
           /\ zone = 6 =>
                /\ off[1] \in {"+", "-"}
                /\ AllDigits(<<off[2], off[3], off[5], off[6]>>)
                /\ off[4] = ":"
                /\ ToNat(<<off[2], off[3]>>) <= 23
                /\ ToNat(<<off[5], off[6]>>) <= 59

\* validate(instance, schema) is called without a format_checker argument.
format_checker == None

\* The "format" keyword: checked only when a format checker was passed.
format(instance, fmt) ==
    IsNone(format_checker) \/
    ((instance.t = "str" /\ fmt = "date-time") => IsDateTime(instance.v))

RECURSIVE is_valid(_, _)
\* No keyword of schema reports an error for instance.
is_valid(instance, schema) ==
    /\ "type" \in DOMAIN schema => is_type(instance, schema.type)
    /\ ("minimum" \in DOMAIN schema /\ is_type(instance, "number"))
          => AtLeast(instance, schema.minimum)
    /\ ("minLength" \in DOMAIN schema /\ is_type(instance, "string"))
          => Len(instance.v) >= schema.minLength
    /\ "format" \in DOMAIN schema => format(instance, schema.format)
    /\ ("required" \in DOMAIN schema /\ is_type(instance, "object"))
          => \A i \in DOMAIN schema.required : schema.required[i] \in DOMAIN instance.v
    /\ ("properties" \in DOMAIN schema /\ is_type(instance, "object"))
          => \A key \in DOMAIN instance.v \cap DOMAIN schema.properties :
                is_valid(instance.v[key], schema.properties[key])
    /\ ("additionalProperties" \in DOMAIN schema /\ is_type(instance, "object"))
          => (schema.additionalProperties \/ DOMAIN instance.v \subseteq DOMAIN schema.properties)
    /\ ("items" \in DOMAIN schema /\ is_type(instance, "array"))
          => \A i \in DOMAIN instance.v : is_valid(instance.v[i], schema.items)
    /\ ("minItems" \in DOMAIN schema /\ is_type(instance, "array"))
          => Len(instance.v) >= schema.minItems

\* jsonschema.validate(instance, schema): the exception it raises.
validate(instance, schema) ==
    IF is_valid(instance, schema) THEN "none" ELSE "ValidationError"

\* What a call gives its caller: a value, or an exception.
Returned(value) == [raised |-> FALSE, value |-> value]
Raised(exc) == [raised |-> TRUE, value |-> exc]

\* validate_book_response with no handler for the ValidationError.
validate_book_response_uncaught(data) ==
    LET exc == validate(data, BOOK_SCHEMA) IN
    IF exc = "none" THEN Returned(TRUE) ELSE Raised(exc)

\* validate_book_response(response_data)
validate_book_response(data) ==
    LET exc == validate(data, BOOK_SCHEMA) IN
    IF exc = "none" THEN Returned(TRUE)
    ELSE IF exc = "ValidationError" THEN Returned(FALSE)
    ELSE Raised(exc)

\* validate_books_list_response(response_data)
validate_books_list_response(data) ==
    LET exc == validate(data, BOOKS_LIST_SCHEMA) IN
    IF exc = "none" THEN Returned(TRUE)
    ELSE IF exc = "ValidationError" THEN Returned(FALSE)
    ELSE Raised(exc)

(***************************************************************************)
(* Response bodies, and the validators as a state machine: a test receives *)
(* a body and calls the validators on it.                                  *)
(***************************************************************************)

\* A key the body does not carry.
Missing == [t |-> "missing", v |-> 0]

\* The values a received body may carry under each key.
FieldChoices ==
    << [key |-> "id",
        vals |-> <<IntV(1), IntV(0), StrV(<<"5">>), BoolV(TRUE), FloatV(2), FloatV(3), Missing>>],
       [key |-> "title",
        vals |-> <<StrV(<<"T">>), StrV(<<>>), StrV(<<" ", "T", " ">>), IntV(12345), Missing>>],
       [key |-> "description",
        vals |-> <<StrV(<<"D">>), StrV(<<" ">>)>>],
       [key |-> "pageCount",
        vals |-> <<IntV(1), IntV(0), StrV(<<"n", "o", "t", "_", "a", "_", "n", "u", "m", "b", "e", "r">>)>>],
       [key |-> "excerpt",
        vals |-> <<StrV(<<>>), IntV(3), NullV, Missing>>],
       [key |-> "publishDate",
        vals |-> <<StrV(<<"2", "0", "2", "3", "-", "0", "1", "-", "0", "1", "T", "0", "0", ":", "0", "0", ":", "0", "0", ".", "0", "0", "0", "Z">>), StrV(<<"2", "0", "2", "3", "-", "0", "1", "-", "0", "1">>),
                   StrV(<<"n", "o", "t", "-", "a", "-", "d", "a", "t", "e">>), StrV(<<"i", "n", "v", "a", "l", "i", "d", "-", "d", "a", "t", "e", "-", "f", "o", "r", "m", "a", "t">>), Missing>>],
       [key |-> "isbn",
        vals |-> <<Missing, StrV(<<"x">>)>>] >>

\* Most keys of one body whose value departs from that of the valid book,
\* the first choice under each key.
MaxFlaws == 2

AllChoices ==
    (1..Len(FieldChoices[1].vals)) \X (1..Len(FieldChoices[2].vals)) \X
    (1..Len(FieldChoices[3].vals)) \X (1..Len(FieldChoices[4].vals)) \X
    (1..Len(FieldChoices[5].vals)) \X (1..Len(FieldChoices[6].vals)) \X
    (1..Len(FieldChoices[7].vals))

Choices ==
    {choice \in AllChoices : Cardinality({i \in DOMAIN choice : choice[i] # 1}) <= MaxFlaws}

\* The object that carries, under each key, the value choice picks for it.
Book(choice) ==
    LET present == {i \in DOMAIN FieldChoices : FieldChoices[i].vals[choice[i]].t # "missing"}
        at(key) == CHOOSE i \in present : FieldChoices[i].key = key
    IN  DictV([key \in {FieldChoices[i].key : i \in present} |->
                 FieldChoices[at(key)].vals[choice[at(key)]]])

\* Bodies that are no object.
OtherBodies == <<IntV(1), StrV(<<"b", "o", "o", "k">>), NullV, BoolV(TRUE)>>

\* The elements of the arrays received: a valid book, one with no excerpt,
\* one with id 0, one with a publishDate that is no date.
Elements ==
    <<Book(<<1, 1, 1, 1, 1, 1, 1>>), Book(<<1, 1, 1, 1, 4, 1, 1>>),
      Book(<<2, 1, 1, 1, 1, 1, 1>>), Book(<<1, 1, 1, 1, 1, 3, 1>>), IntV(1)>>

\* Longest array received.
MaxListLen == 2
\* Most calls of one validator in a row on one body.
MaxCalls == 2

Arrays ==
    UNION {[1..k -> 1..Len(Elements)] : k \in 0..MaxListLen}

\* The response body arrives.
Receive(body) ==
    /\ response_data.t = "none"
    /\ response_data' = body
    /\ UNCHANGED <<called, verdict, calls>>
    /\ UNCHANGED otherThanValid

\* The object handed to validate_book_data, as the call leaves it, with the
\* trimmed title and description written back to it.
after_validate_book_data_trimmed(book_data) ==
    IF book_data.t = "dict"
    THEN DictV([key \in DOMAIN book_data.v |->
                  IF key \in {"title", "description"} /\ book_data.v[key].t = "str"
                  THEN StrV(strip(book_data.v[key].v))
                  ELSE book_data.v[key]])
    ELSE book_data

\* The object handed to validate_book_data, as the call leaves it: its
\* items are bound to keyword arguments, and what the field validators
\* return goes to the BookSchema instance.
after_validate_book_data(book_data) == book_data

\* A validator is called on the body: the count of calls in a row.
CallsAfter(fn) == IF called = fn THEN calls + 1 ELSE 1

\* validate_book_response(response_data) is called.
CallValidateBookResponse ==
    /\ response_data.t # "none"
    /\ CallsAfter("validate_book_response") <= MaxCalls
    /\ called' = "validate_book_response"
    /\ calls' = CallsAfter("validate_book_response")
    /\ verdict' = validate_book_response(response_data)
    /\ UNCHANGED response_data
    /\ UNCHANGED otherThanValid

\* validate_books_list_response(response_data) is called.
CallValidateBooksListResponse ==
    /\ response_data.t # "none"
    /\ CallsAfter("validate_books_list_response") <= MaxCalls
    /\ called' = "validate_books_list_response"
    /\ calls' = CallsAfter("validate_books_list_response")
    /\ verdict' = validate_books_list_response(response_data)
    /\ UNCHANGED response_data
    /\ UNCHANGED otherThanValid

\* validate_book_data(response_data) is called.
CallValidateBookData ==
    /\ response_data.t # "none"
    /\ CallsAfter("validate_book_data") <= MaxCalls
    /\ called' = "validate_book_data"
    /\ calls' = CallsAfter("validate_book_data")
    /\ verdict' = Returned(validate_book_data(response_data))
    /\ response_data' = after_validate_book_data(response_data)
    /\ UNCHANGED otherThanValid

ValidInit == ValidIdle /\ ClientIdle /\ GenIdle /\ FixtureIdle /\ AssertIdle /\ ConfigIdle /\ TestIdle /\ CliIdle

ValidNext ==
    \/ \E choice \in Choices : Receive(Book(choice))
    \/ \E i \in DOMAIN OtherBodies : Receive(OtherBodies[i])
    \/ \E a \in Arrays : Receive(ListV([i \in DOMAIN a |-> Elements[a[i]]]))
    \/ CallValidateBookResponse
    \/ CallValidateBooksListResponse
    \/ CallValidateBookData

ValidSpec == ValidInit /\ [][ValidNext]_vars

(***************************************************************************)
(* Properties of the structural schema check                               *)
(***************************************************************************)

SixKeys == {"id", "title", "description", "pageCount", "excerpt", "publishDate"}

\* An integer >= 1 (a JSON number with no fractional part).
IntegerAtLeast1(x) ==
    (x.t = "int" /\ x.v >= 1) \/ (x.t = "float" /\ x.v % 2 = 0 /\ x.v >= 2)
NonEmptyText(x) == x.t = "str" /\ x.v # <<>>

\* The flaws C11 lists: a key missing, a key too many, an id or pageCount
\* that is no integer >= 1, a title or description that is no non-empty text.
Flawed(b) ==
    \/ ~(SixKeys \subseteq DOMAIN b.v)
    \/ ~(DOMAIN b.v \subseteq SixKeys)
    \/ ~IntegerAtLeast1(b.v.id)
    \/ ~IntegerAtLeast1(b.v.pageCount)
    \/ ~NonEmptyText(b.v.title)
    \/ ~NonEmptyText(b.v.description)

OnObject(fn) == called = fn /\ response_data.t = "dict"

\* C11, as stated: validate_book_response returns false for every object
\* with one of the listed flaws, and true for an object with exactly the
\* six keys, values free of those flaws and a date-time publishDate.
C11_SchemaCheckAsStated ==
    OnObject("validate_book_response") =>
        /\ Flawed(response_data) => verdict = Returned(FALSE)
        /\ (~Flawed(response_data) /\ response_data.v.publishDate.t = "str"
              /\ IsDateTime(response_data.v.publishDate.v))
             => verdict = Returned(TRUE)

\* C11, amended: validate_book_response returns false for every object
\* with one of the listed flaws or with an excerpt or publishDate that is
\* not text, and true for an object with exactly the six keys, values free
\* of those flaws, a text excerpt and a date-time publishDate.
C11_SchemaCheck ==
    OnObject("validate_book_response") =>
        /\ Flawed(response_data) => verdict = Returned(FALSE)
        /\ (~Flawed(response_data) /\ response_data.v.excerpt.t # "str")
             => verdict = Returned(FALSE)
        /\ (~Flawed(response_data) /\ response_data.v.publishDate.t # "str")
             => verdict = Returned(FALSE)
        /\ (~Flawed(response_data) /\ response_data.v.excerpt.t = "str"
              /\ response_data.v.publishDate.t = "str"
              /\ IsDateTime(response_data.v.publishDate.v))
             => verdict = Returned(TRUE)

\* A book with the six keys, sound values and a date-time publishDate has
\* been accepted.
C11_Witness ==
    /\ OnObject("validate_book_response")
    /\ ~Flawed(response_data)
    /\ response_data.v.excerpt.t = "str"
    /\ response_data.v.publishDate.t = "str"
    /\ IsDateTime(response_data.v.publishDate.v)
    /\ verdict = Returned(TRUE)

\* C12, as stated: validate_book_response returns false for a book, sound
\* otherwise, whose publishDate is text that is not date-time-shaped.
C12_NonDateTimeIsRejected ==
    (/\ OnObject("validate_book_response")
     /\ ~Flawed(response_data)
     /\ response_data.v.excerpt.t = "str"
     /\ response_data.v.publishDate.t = "str"
     /\ ~IsDateTime(response_data.v.publishDate.v))
        => verdict = Returned(FALSE)

\* C13: validate_books_list_response returns true for an array exactly
\* when validate_book_response returns true for each of its elements, the
\* empty array included; an array with an element that lacks excerpt is
\* rejected.
C13_ListCheckedElementwise ==
    (called = "validate_books_list_response" /\ response_data.t = "list") =>
        /\ verdict.value = TRUE <=>
             \A i \in DOMAIN response_data.v :
                validate_book_response(response_data.v[i]) = Returned(TRUE)
        /\ response_data.v = <<>> => verdict = Returned(TRUE)
        /\ (\E i \in DOMAIN response_data.v :
               /\ response_data.v[i].t = "dict"
               /\ "excerpt" \notin DOMAIN response_data.v[i].v)
             => verdict = Returned(FALSE)

\* An array of a valid book and a book without excerpt has been rejected.
C13_Witness ==
    /\ called = "validate_books_list_response"
    /\ response_data.t = "list"
    /\ Len(response_data.v) = 2
    /\ validate_book_response(response_data.v[1]) = Returned(TRUE)
    /\ response_data.v[2].t = "dict"
    /\ DOMAIN response_data.v[2].v = SixKeys \ {"excerpt"}
    /\ verdict = Returned(FALSE)

(***************************************************************************)
(* Properties of both validation paths                                     *)
(***************************************************************************)

StructuralChecks == {"validate_book_response", "validate_books_list_response"}

\* C15: no validator raises to its caller, whatever the body: the
\* structural checks return a boolean, validate_book_data returns a list,
\* empty or holding the message.
C15_ValidatorsNeverRaise ==
    /\ called \in StructuralChecks => (~verdict.raised /\ verdict.value \in BOOLEAN)
    /\ called = "validate_book_data" =>
         (~verdict.raised /\ Len(verdict.value) \in {0, 1})

\* Each validator has returned on a body that is no object: false from the
\* single-book check, a message from validate_book_data.
C15_Witness ==
    /\ response_data.t \notin {"dict", "list", "none"}
    /\ \/ called = "validate_book_response" /\ verdict = Returned(FALSE)
       \/ called = "validate_book_data" /\ ~verdict.raised /\ Len(verdict.value) = 1

StronglyTyped(b) ==
    /\ b.t = "dict"
    /\ SixKeys \subseteq DOMAIN b.v
    /\ b.v.id.t = "int" /\ b.v.id.v > 0
    /\ b.v.title.t = "str" /\ strip(b.v.title.v) # <<>>
    /\ b.v.description.t = "str" /\ strip(b.v.description.v) # <<>>
    /\ b.v.pageCount.t = "int" /\ b.v.pageCount.v > 0
    /\ b.v.excerpt.t = "str"
    /\ b.v.publishDate.t = "str"
    /\ fromisoformat_ok(replace(b.v.publishDate.v, "Z", <<"+", "0", "0", ":", "0", "0">>))

\* C14, as stated: validate_book_data returns the empty list if and only
\* if the payload is a strongly-typed Book, and a list of messages for
\* every other payload.
C14_EmptyIffStronglyTyped ==
    called = "validate_book_data" =>
        /\ ~verdict.raised
        /\ verdict.value = <<>> <=> StronglyTyped(response_data)

\* The Book invariant: the six fields present, id and pageCount positive,
\* title and description non-empty after trimming, publishDate a date
\* that parses.
BookInvariant(b) ==
    /\ b.t = "dict"
    /\ SixKeys \subseteq DOMAIN b.v
    /\ IntegerAtLeast1(b.v.id)
    /\ IntegerAtLeast1(b.v.pageCount)
    /\ b.v.title.t = "str" /\ strip(b.v.title.v) # <<>>
    /\ b.v.description.t = "str" /\ strip(b.v.description.v) # <<>>
    /\ b.v.publishDate.t = "str"
    /\ fromisoformat_ok(replace(b.v.publishDate.v, "Z", <<"+", "0", "0", ":", "0", "0">>))

\* C27: every body validate_book_response accepts satisfies the Book
\* invariant, and validate_book_data returns the empty list for it.
C27_ValidationPathsAgree ==
    (called = "validate_book_response" /\ verdict = Returned(TRUE)) =>
        /\ BookInvariant(response_data)
        /\ validate_book_data(response_data) = <<>>

(***************************************************************************)
(* Content assertion (utils/validators.py, ResponseAsserter)               *)
(***************************************************************************)

\* 'T' in s
Contains(s, c) == \E i \in DOMAIN s : s[i] = c

\* actual_value == expected_value, for integers and text.
py_eq(a, b) == a.t = b.t /\ a.v = b.v

\* The exception the loop body raises for one field of expected_data,
\* or "none".
CompareField(book_data, expected_data, field) ==
    IF field \notin DOMAIN book_data THEN "none"
    ELSE LET expected_value == expected_data[field]
             actual_value == book_data[field]
         IN  IF field = "publishDate"
             THEN IF expected_value.t # "str" \/ actual_value.t # "str"
                  THEN "TypeError"
                  ELSE LET expected_date ==
                               IF Contains(expected_value.v, "T")
                               THEN BeforeFirst(expected_value.v, "T") ELSE expected_value.v
                           actual_date ==
                               IF Contains(actual_value.v, "T")
                               THEN BeforeFirst(actual_value.v, "T") ELSE actual_value.v
                       IN  IF actual_date = expected_date THEN "none" ELSE "AssertionError"
             ELSE IF py_eq(actual_value, expected_value) THEN "none" ELSE "AssertionError"

\* The loop over expected_data.items(), in the order of its keys: the first
\* exception ends it.
RECURSIVE CompareFields(_, _, _)
CompareFields(book_data, expected_data, fields) ==
    IF fields = <<>> THEN "none"
    ELSE LET exc == CompareField(book_data, expected_data, Head(fields)) IN
         IF exc # "none" THEN exc
         ELSE CompareFields(book_data, expected_data, Tail(fields))

\* assert_book_content that compares publishDate like any other field.
assert_book_content_plain(book_data, expected_data) ==
    IF \A field \in DOMAIN expected_data \cap DOMAIN book_data :
          py_eq(book_data[field], expected_data[field])
    THEN "none" ELSE "AssertionError"

\* assert_book_content(book_data, expected_data): the exception it raises,
\* or "none".
assert_book_content(book_data, expected_data) ==
    CompareFields(book_data, expected_data, KeysOf(expected_data))

\* The values a payload, sent or received, may carry under each key.
ContentChoices ==
    << [key |-> "id", vals |-> <<IntV(1), IntV(2), Missing>>],
       [key |-> "title", vals |-> <<StrV(<<"T">>), StrV(<<"t">>), Missing>>],
       [key |-> "publishDate",
        vals |-> <<StrV(<<"2", "0", "2", "3", "-", "0", "1", "-", "0", "1">>), StrV(<<"2", "0", "2", "3", "-", "0", "1", "-", "0", "1", "T", "0", "0", ":", "0", "0", ":", "0", "0", ".", "0", "0", "0", "Z">>),
                   StrV(<<"2", "0", "2", "3", "-", "0", "1", "-", "0", "1", "T", "1", "2", ":", "3", "0", ":", "0", "0">>), StrV(<<"2", "0", "2", "3", "-", "0", "1", "-", "0", "2">>),
                   StrV(<<"2", "0", "2", "3", "-", "0", "1", "-", "0", "2", "T", "0", "0", ":", "0", "0", ":", "0", "0", ".", "0", "0", "0", "Z">>), IntV(20230101), Missing>>] >>

ContentPicks ==
    (1..Len(ContentChoices[1].vals)) \X (1..Len(ContentChoices[2].vals)) \X
    (1..Len(ContentChoices[3].vals))

\* The dict that carries, under each key, the value pick chooses for it.
Content(pick) ==
    LET present == {i \in DOMAIN ContentChoices : ContentChoices[i].vals[pick[i]].t # "missing"}
        at(key) == CHOOSE i \in present : ContentChoices[i].key = key
    IN  [key \in {ContentChoices[i].key : i \in present} |->
            ContentChoices[at(key)].vals[pick[at(key)]]]

\* A test sends expected_data and receives book_data in the response.
Respond(sent, received) ==
    /\ assertion = "none"
    /\ expected = NoContent
    /\ expected' = Content(sent)
    /\ actual' = Content(received)
    /\ UNCHANGED assertion
    /\ UNCHANGED otherThanAssert

\* The test calls assert_book_content(book_data, expected_data).
AssertBookContent ==
    /\ expected # NoContent
    /\ assertion = "none"
    /\ assertion' = LET exc == assert_book_content(actual, expected)
                    IN  IF exc = "none" THEN "passed" ELSE exc
    /\ UNCHANGED <<actual, expected>>
    /\ UNCHANGED otherThanAssert

AssertInit == AssertIdle /\ ClientIdle /\ GenIdle /\ FixtureIdle /\ ValidIdle /\ ConfigIdle /\ TestIdle /\ CliIdle

AssertNext ==
    \/ \E sent \in ContentPicks, received \in ContentPicks : Respond(sent, received)
    \/ AssertBookContent

AssertSpec == AssertInit /\ [][AssertNext]_vars

\* The date-only portion of a publishDate: what stands before the first T.
DateOnly(x) == BeforeFirst(x.v, "T")

\* Both payloads carry a text publishDate.
BothDated ==
    /\ "publishDate" \in DOMAIN actual /\ actual.publishDate.t = "str"
    /\ "publishDate" \in DOMAIN expected /\ expected.publishDate.t = "str"

\* C17: when both payloads carry a text publishDate, assert_book_content
\* passes exactly when the date-only portions before the first "T" are
\* equal and every other field both carry is exactly equal; so the same
\* date with any time-of-day on either side is reported equal, and
\* different dates unequal.
C17_DatesComparedByDay ==
    (assertion # "none" /\ BothDated) =>
        /\ assertion \in {"passed", "AssertionError"}
        /\ assertion = "passed" <=>
             /\ DateOnly(actual.publishDate) = DateOnly(expected.publishDate)
             /\ \A field \in (DOMAIN expected \cap DOMAIN actual) \ {"publishDate"} :
                   actual[field].t = expected[field].t /\ actual[field].v = expected[field].v

\* "2023-01-01" sent and "2023-01-01T00:00:00.000Z" received, the other
\* fields equal, and the assertion has passed.
C17_Witness ==
    /\ assertion = "passed"
    /\ BothDated
    /\ expected.publishDate.v = <<"2", "0", "2", "3", "-", "0", "1", "-", "0", "1">>
    /\ actual.publishDate.v = <<"2", "0", "2", "3", "-", "0", "1", "-", "0", "1", "T", "0", "0", ":", "0", "0", ":", "0", "0", ".", "0", "0", "0", "Z">>
    /\ DOMAIN expected = {"id", "title", "publishDate"}
    /\ DOMAIN actual = DOMAIN expected

\* C23: assert_book_content fails whenever the actual payload lacks a field
\* of the expected payload or holds a different value for it, so it never
\* passes for an actual payload that misses an expected field.
C23_MissingFieldFails ==
    assertion = "passed" =>
        \A field \in DOMAIN expected :
            /\ field \in DOMAIN actual
            /\ IF field = "publishDate" /\ BothDated
               THEN DateOnly(actual[field]) = DateOnly(expected[field])
               ELSE actual[field].t = expected[field].t /\ actual[field].v = expected[field].v

(***************************************************************************)
(* Configuration (config/config.py)                                        *)
(***************************************************************************)

\* s.startswith(prefix)
startswith(s, prefix) == Len(s) >= Len(prefix) /\ SubSeq(s, 1, Len(prefix)) = prefix

\* int(text): the integer, or None for the ValueError.
int(text) ==
    LET t == strip(text) IN IF IntLike(t) THEN Some(ToInt(t)) ELSE None

\* os.getenv(name, default)
getenv(env, name, default) == IF IsNone(env[name]) THEN default ELSE Val(env[name])

\* The settings read with int(), and their defaults.
IntSettings ==
    << [attr |-> "API_TIMEOUT", env |-> "TIMEOUT", default |-> <<"3", "0">>],
       [attr |-> "TEST_TIMEOUT", env |-> "TEST_TIMEOUT", default |-> <<"6", "0">>],
       [attr |-> "MAX_RETRIES", env |-> "MAX_RETRIES", default |-> <<"3">>],
       [attr |-> "RETRY_DELAY", env |-> "RETRY_DELAY", default |-> <<"1">>],
       [attr |-> "PERFORMANCE_TIMEOUT", env |-> "PERFORMANCE_TIMEOUT", default |-> <<"1", "0">>],
       [attr |-> "MAX_RESPONSE_SIZE", env |-> "MAX_RESPONSE_SIZE", default |-> <<"1", "0", "4", "8", "5", "7", "6">>] >>

\* The body of class Config: the exception it raises, and the attributes
\* it binds.
ClassConfig(env) ==
    LET read(i) == int(getenv(env, IntSettings[i].env, IntSettings[i].default))
    IN  IF \E i \in DOMAIN IntSettings : IsNone(read(i))
        THEN [exc |-> "ValueError"]
        ELSE [exc |-> "none",
              API_BASE_URL |-> getenv(env, "API_BASE_URL", <<"h", "t", "t", "p", "s", ":", "/", "/", "f", "a", "k", "e", "r", "e", "s", "t", "a", "p", "i", ".", "a", "z", "u", "r", "e", "w", "e", "b", "s", "i", "t", "e", "s", ".", "n", "e", "t">>),
              LOG_LEVEL |-> getenv(env, "LOG_LEVEL", <<"I", "N", "F", "O">>),
              API_TIMEOUT |-> Val(read(1)),
              TEST_TIMEOUT |-> Val(read(2)),
              MAX_RETRIES |-> Val(read(3)),
              RETRY_DELAY |-> Val(read(4)),
              PERFORMANCE_TIMEOUT |-> Val(read(5)),
              MAX_RESPONSE_SIZE |-> Val(read(6))]

valid_log_levels == {<<"D", "E", "B", "U", "G">>, <<"I", "N", "F", "O">>, <<"W", "A", "R", "N", "I", "N", "G">>, <<"E", "R", "R", "O", "R">>, <<"C", "R", "I", "T", "I", "C", "A", "L">>}

\* validate_config that accepts any log level.
validate_config_any_level(cls) ==
    IF ~(startswith(cls.API_BASE_URL, <<"h", "t", "t", "p", ":", "/", "/">>) \/ startswith(cls.API_BASE_URL, <<"h", "t", "t", "p", "s", ":", "/", "/">>))
    THEN [value |-> FALSE, printed |-> <<"Invalid API_BASE_URL">>]
    ELSE IF cls.API_TIMEOUT <= 0 \/ cls.TEST_TIMEOUT <= 0
    THEN [value |-> FALSE, printed |-> <<"Timeouts must be positive values">>]
    ELSE IF cls.MAX_RETRIES < 0 \/ cls.RETRY_DELAY < 0
    THEN [value |-> FALSE, printed |-> <<"Retry settings must be non-negative">>]
    ELSE [value |-> TRUE, printed |-> <<>>]

\* Config.validate_config(): what it returns, and what it prints.
validate_config(cls) ==
    IF ~(startswith(cls.API_BASE_URL, <<"h", "t", "t", "p", ":", "/", "/">>) \/ startswith(cls.API_BASE_URL, <<"h", "t", "t", "p", "s", ":", "/", "/">>))
    THEN [value |-> FALSE, printed |-> <<"Invalid API_BASE_URL">>]
    ELSE IF cls.API_TIMEOUT <= 0 \/ cls.TEST_TIMEOUT <= 0
    THEN [value |-> FALSE, printed |-> <<"Timeouts must be positive values">>]
    ELSE IF cls.MAX_RETRIES < 0 \/ cls.RETRY_DELAY < 0
    THEN [value |-> FALSE, printed |-> <<"Retry settings must be non-negative">>]
    ELSE IF cls.LOG_LEVEL \notin valid_log_levels
    THEN [value |-> FALSE, printed |-> <<"Invalid LOG_LEVEL">>]
    ELSE [value |-> TRUE, printed |-> <<>>]

\* The values the environment may give each variable; the first leaves it
\* unset.
EnvChoices ==
    << [name |-> "API_BASE_URL",
        vals |-> <<None, Some(<<"h", "t", "t", "p", ":", "/", "/", "l", "o", "c", "a", "l", "h", "o", "s", "t">>), Some(<<"f", "t", "p", ":", "/", "/", "l", "o", "c", "a", "l", "h", "o", "s", "t">>),
                   Some(<<"l", "o", "c", "a", "l", "h", "o", "s", "t">>), Some(<<>>)>>],
       [name |-> "TIMEOUT",
        vals |-> <<None, Some(<<"0">>), Some(<<"-", "1">>), Some(<<" ", "5", " ">>), Some(<<"a", "b", "c">>)>>],
       [name |-> "TEST_TIMEOUT", vals |-> <<None, Some(<<"0">>), Some(<<"1", ".", "5">>)>>],
       [name |-> "MAX_RETRIES", vals |-> <<None, Some(<<"0">>), Some(<<"-", "1">>), Some(<<"t", "h", "r", "e", "e">>)>>],
       [name |-> "RETRY_DELAY", vals |-> <<None, Some(<<"0">>), Some(<<"-", "1">>), Some(<<>>)>>],
       [name |-> "LOG_LEVEL", vals |-> <<None, Some(<<"D", "E", "B", "U", "G">>), Some(<<"i", "n", "f", "o">>), Some(<<>>)>>],
       [name |-> "PERFORMANCE_TIMEOUT", vals |-> <<None, Some(<<"0">>), Some(<<"f", "a", "s", "t">>)>>],
       [name |-> "MAX_RESPONSE_SIZE", vals |-> <<None, Some(<<"1", "M", "B">>)>>] >>

\* Most variables the environment sets in one run.
MaxEnvSet == 2

EnvPicks ==
    {pick \in (1..Len(EnvChoices[1].vals)) \X (1..Len(EnvChoices[2].vals)) \X
              (1..Len(EnvChoices[3].vals)) \X (1..Len(EnvChoices[4].vals)) \X
              (1..Len(EnvChoices[5].vals)) \X (1..Len(EnvChoices[6].vals)) \X
              (1..Len(EnvChoices[7].vals)) \X (1..Len(EnvChoices[8].vals)) :
        Cardinality({i \in DOMAIN pick : pick[i] # 1}) <= MaxEnvSet}

Environ(pick) ==
    [name \in {EnvChoices[i].name : i \in DOMAIN EnvChoices} |->
        LET i == CHOOSE j \in DOMAIN EnvChoices : EnvChoices[j].name = name
        IN  EnvChoices[i].vals[pick[i]]]

\* The process starts with its environment.
Start(pick) ==
    /\ started = FALSE
    /\ started' = TRUE
    /\ environ' = Environ(pick)
    /\ UNCHANGED <<imported, settings, config_ok, printed>>
    /\ UNCHANGED otherThanConfig

\* config.config is imported: the class body runs, then validate_config,
\* and the warning is printed when it returns false.
ImportConfig ==
    /\ started
    /\ imported = "no"
    /\ LET cls == ClassConfig(environ) IN
       IF cls.exc # "none"
       THEN /\ imported' = cls.exc
            /\ UNCHANGED <<settings, config_ok, printed>>
       ELSE LET r == validate_config(cls) IN
            /\ imported' = "done"
            /\ settings' = cls
            /\ config_ok' = r.value
            /\ printed' = r.printed \o
                 (IF r.value THEN <<>> ELSE <<"Warning: Configuration validation failed">>)
    /\ UNCHANGED <<started, environ>>
    /\ UNCHANGED otherThanConfig

\* Most lines printed in one run.
MaxPrinted == 3

\* Config.validate_config() is called again after the import.
ValidateConfig ==
    /\ imported = "done"
    /\ LET r == validate_config(settings) IN
       /\ config_ok' = r.value
       /\ printed' = printed \o r.printed
    /\ Len(printed) < MaxPrinted
    /\ UNCHANGED <<started, environ, imported, settings>>
    /\ UNCHANGED otherThanConfig

ConfigInit == ConfigIdle /\ ClientIdle /\ GenIdle /\ FixtureIdle /\ ValidIdle /\ AssertIdle /\ TestIdle /\ CliIdle

ConfigNext ==
    \/ \E pick \in EnvPicks : Start(pick)
    \/ ImportConfig
    \/ ValidateConfig

ConfigSpec == ConfigInit /\ [][ConfigNext]_vars

\* C18, as stated: validate_config returns false exactly when the base URL
\* starts with neither http:// nor https://, a configured timeout is <= 0,
\* MAX_RETRIES or RETRY_DELAY is < 0, or LOG_LEVEL is none of the five
\* levels.
C18_ConfigValidatedAsStated ==
    imported = "done" =>
        (config_ok = FALSE <=>
            \/ ~(startswith(settings.API_BASE_URL, <<"h", "t", "t", "p", ":", "/", "/">>)
                   \/ startswith(settings.API_BASE_URL, <<"h", "t", "t", "p", "s", ":", "/", "/">>))
            \/ settings.API_TIMEOUT <= 0
            \/ settings.TEST_TIMEOUT <= 0
            \/ settings.PERFORMANCE_TIMEOUT <= 0
            \/ settings.MAX_RETRIES < 0
            \/ settings.RETRY_DELAY < 0
            \/ settings.LOG_LEVEL \notin valid_log_levels)

\* C18, amended: validate_config returns false exactly when the base URL
\* starts with neither http:// nor https://, API_TIMEOUT or TEST_TIMEOUT is
\* <= 0, MAX_RETRIES or RETRY_DELAY is < 0, or LOG_LEVEL is none of the
\* five levels; PERFORMANCE_TIMEOUT is not looked at.
C18_ConfigValidated ==
    imported = "done" =>
        (config_ok = FALSE <=>
            \/ ~(startswith(settings.API_BASE_URL, <<"h", "t", "t", "p", ":", "/", "/">>)
                   \/ startswith(settings.API_BASE_URL, <<"h", "t", "t", "p", "s", ":", "/", "/">>))
            \/ settings.API_TIMEOUT <= 0
            \/ settings.TEST_TIMEOUT <= 0
            \/ settings.MAX_RETRIES < 0
            \/ settings.RETRY_DELAY < 0
            \/ settings.LOG_LEVEL \notin valid_log_levels)

\* A configuration whose only fault is a request timeout of 0 or less has
\* been found invalid.
C18_Witness ==
    /\ imported = "done"
    /\ settings.API_TIMEOUT <= 0
    /\ settings.TEST_TIMEOUT > 0
    /\ settings.LOG_LEVEL \in valid_log_levels
    /\ config_ok = FALSE
    /\ printed # <<>>

\* C19, as stated: whatever the environment holds, the import of the
\* configuration completes.
C19_ImportNeverAborts ==
    imported \in {"no", "done"}

(***************************************************************************)
(* Test cases and fixtures that create a Book (tests/conftest.py,          *)
(* tests/test_books_api.py)                                                *)
(***************************************************************************)

\* What a client call gave the test: a response with its status, or an
\* exception.
CallResults ==
    {[raised |-> FALSE, status |-> s] : s \in {200, 400, 404, 500}} \cup
    {[raised |-> TRUE, status |-> 0]}

\* Largest id the server gives a created Book.
MaxCreatedId == 2

\* The steps of each test case or fixture that creates a Book, in order.
\*   lookup  `if edge_case_data in edge_cases_data`, then
\*           edge_cases_data[edge_case_data]
\*   create  create_book; then "assert" the status is 200, or "branch" on
\*           it (anything else must be 400, and the test ends), or "log"
\*           any other status and end, or "return" from the fixture
\*           whatever the answer
\*   list    get_all_books, returning from the fixture when a book is found
\*   check   assertions and calls on the way, any of which may raise
\*   read    get_book_by_id: a 404 returns from the test
\*   delete  delete_book, guarded by try/except or not
\* body and teardown are the first step of the test body and of the
\* teardown of a yield fixture (0 when there is none).
Tests ==
    [test_create_book |->
        [steps |-> <<[kind |-> "create", mode |-> "assert"],
                     [kind |-> "check"],
                     [kind |-> "delete", guarded |-> TRUE]>>,
         body |-> 0, teardown |-> 0],
     test_create_book_with_invalid_data |->
        [steps |-> <<[kind |-> "create", mode |-> "branch"],
                     [kind |-> "check"],
                     [kind |-> "delete", guarded |-> TRUE]>>,
         body |-> 0, teardown |-> 0],
     test_create_book_missing_required_fields |->
        [steps |-> <<[kind |-> "create", mode |-> "branch"],
                     [kind |-> "check"],
                     [kind |-> "delete", guarded |-> TRUE]>>,
         body |-> 0, teardown |-> 0],
     test_create_book_wrong_data_types |->
        [steps |-> <<[kind |-> "create", mode |-> "branch"],
                     [kind |-> "check"],
                     [kind |-> "delete", guarded |-> TRUE]>>,
         body |-> 0, teardown |-> 0],
     test_create_book_edge_cases |->
        [steps |-> <<[kind |-> "lookup"],
                     [kind |-> "create", mode |-> "log"],
                     [kind |-> "check"],
                     [kind |-> "delete", guarded |-> TRUE]>>,
         body |-> 0, teardown |-> 0],
     test_full_crud_lifecycle |->
        [steps |-> <<[kind |-> "create", mode |-> "assert"],
                     [kind |-> "read"],
                     [kind |-> "check"],
                     [kind |-> "delete", guarded |-> FALSE],
                     [kind |-> "check"]>>,
         body |-> 0, teardown |-> 0],
     test_update_book |->
        [steps |-> <<[kind |-> "create", mode |-> "assert"],
                     [kind |-> "check"],
                     [kind |-> "delete", guarded |-> TRUE]>>,
         body |-> 2, teardown |-> 3],
     test_delete_book |->
        [steps |-> <<[kind |-> "create", mode |-> "assert"],
                     [kind |-> "delete", guarded |-> FALSE],
                     [kind |-> "check"],
                     [kind |-> "delete", guarded |-> TRUE]>>,
         body |-> 2, teardown |-> 4],
     existing_book_id |->
        [steps |-> <<[kind |-> "list"],
                     [kind |-> "create", mode |-> "return"]>>,
         body |-> 0, teardown |-> 0]]

TestNames == DOMAIN Tests

Running == test_result = "running"
AtStep(kind) ==
    /\ Running
    /\ position <= Len(Tests[test_case].steps)
    /\ Tests[test_case].steps[position].kind = kind
CurrentStep == Tests[test_case].steps[position]
InBody ==
    /\ Tests[test_case].teardown # 0
    /\ position >= Tests[test_case].body
    /\ position < Tests[test_case].teardown

\* The step went through: on to the next one.
Proceed ==
    /\ position' = position + 1
    /\ UNCHANGED <<test_case, test_result, body_failed, failed_at>>

\* The step raised: the test ends, or, in the body of a test that uses a
\* yield fixture, the fixture's teardown runs next.
Fail ==
    /\ failed_at' = position
    /\ IF InBody
       THEN /\ position' = Tests[test_case].teardown
            /\ body_failed' = TRUE
            /\ UNCHANGED <<test_case, test_result>>
       ELSE /\ test_result' = "failed"
            /\ UNCHANGED <<test_case, position, body_failed>>

\* The test or fixture returns.
Return(outcome) ==
    /\ test_result' = outcome
    /\ UNCHANGED <<test_case, position, body_failed, failed_at>>

\* pytest starts a test case, or sets up a fixture.
Begin(t) ==
    /\ test_result = "none"
    /\ test_case' = t
    /\ position' = 1
    /\ test_result' = "running"
    /\ UNCHANGED <<created_id, deleted, body_failed, failed_at, cleanup, cleanup_log,
                   edge_case_data, edge_test_data, requested>>
    /\ UNCHANGED otherThanTest

\* The names test_create_book_edge_cases is parametrized with.
EdgeCaseParams ==
    {StrV(<<"l", "o", "n", "g", "_", "t", "i", "t", "l", "e">>),
     StrV(<<"s", "p", "e", "c", "i", "a", "l", "_", "c", "h", "a", "r", "s">>),
     StrV(<<"e", "m", "p", "t", "y", "_", "f", "i", "e", "l", "d", "s">>)}

\* x in container, for a list: some element equals x.
In(x, container) == \E i \in DOMAIN container.v : py_eq(container.v[i], x)

\* container[key], for a list: the element, or TypeError for a key that is
\* no integer, or IndexError.
getitem(container, key) ==
    IF key.t # "int" THEN [exc |-> "TypeError"]
    ELSE IF key.v + 1 \in DOMAIN container.v
         THEN [exc |-> "none", value |-> container.v[key.v + 1]]
         ELSE [exc |-> "IndexError"]

\* The edge_cases_data fixture: what generate_edge_case_data() returned.
edge_cases_data(seed, today) == DictList(generate_edge_case_data(seed, today))

\* test_create_book_edge_cases looks its case up by name; when the name is
\* not in edge_cases_data the test is over.
DoLookup(name, seed, today) ==
    /\ AtStep("lookup")
    /\ edge_case_data' = Some(name)
    /\ IF In(name, edge_cases_data(seed, today))
       THEN LET item == getitem(edge_cases_data(seed, today), name) IN
            IF item.exc = "none"
            THEN edge_test_data' = Some(item.value) /\ Proceed
            ELSE UNCHANGED edge_test_data /\ Fail
       ELSE UNCHANGED edge_test_data /\ Return("passed")
    /\ UNCHANGED <<created_id, deleted, cleanup, cleanup_log, requested>>
    /\ UNCHANGED otherThanTest

\* create_book is called; the server gives a created Book the id.
DoCreate(r, id) ==
    /\ AtStep("create")
    /\ requested' = Append(requested, "create_book")
    /\ IF ~r.raised /\ r.status = 200
       THEN /\ created_id' = Some(id)
            /\ IF CurrentStep.mode = "return" THEN Return("passed") ELSE Proceed
       ELSE /\ UNCHANGED created_id
            /\ CASE CurrentStep.mode = "assert" -> Fail
                 [] CurrentStep.mode = "branch" ->
                       IF ~r.raised /\ r.status = 400 THEN Return("passed") ELSE Fail
                 [] CurrentStep.mode = "log" ->
                       IF ~r.raised THEN Return("passed") ELSE Fail
                 [] CurrentStep.mode = "return" -> Return("passed")
    /\ UNCHANGED <<deleted, cleanup, cleanup_log, edge_case_data, edge_test_data>>
    /\ UNCHANGED otherThanTest

\* existing_book_id asks for all books, and returns when it finds one.
DoList(r, found) ==
    /\ AtStep("list")
    /\ requested' = Append(requested, "get_all_books")
    /\ IF ~r.raised /\ r.status = 200 /\ found THEN Return("passed") ELSE Proceed
    /\ UNCHANGED <<created_id, deleted, cleanup, cleanup_log, edge_case_data, edge_test_data>>
    /\ UNCHANGED otherThanTest

\* Assertions, and the calls between them, pass or raise.
DoCheck(ok) ==
    /\ AtStep("check")
    /\ IF ok THEN Proceed ELSE Fail
    /\ UNCHANGED <<created_id, deleted, cleanup, cleanup_log,
                   edge_case_data, edge_test_data, requested>>
    /\ UNCHANGED otherThanTest

\* test_full_crud_lifecycle reads the Book back: a 404 ends the test.
DoRead(r) ==
    /\ AtStep("read")
    /\ IF r.raised THEN Fail
       ELSE IF r.status = 404 THEN Return("passed")
       ELSE IF r.status = 200 THEN Proceed
       ELSE Fail
    /\ requested' = Append(requested, "get_book_by_id")
    /\ UNCHANGED <<created_id, deleted, cleanup, cleanup_log, edge_case_data, edge_test_data>>
    /\ UNCHANGED otherThanTest

\* What _make_request logs for a call that gave r.
ClientLog(r) ==
    <<"debug">> \o
    MakeRequestResult(IF r.raised THEN [kind |-> "exception", exc |-> "ConnectionError"]
                      ELSE [kind |-> "response", status |-> r.status]).logs

\* delete_book with no try/except around any call: whatever is not a 200
\* answer ends the test.
DoDelete_unguarded(r) ==
    /\ AtStep("delete")
    /\ deleted' = deleted \cup {Val(created_id)}
    /\ IF CurrentStep.guarded
       THEN /\ cleanup' = r
            /\ cleanup_log' = ClientLog(r)
       ELSE UNCHANGED <<cleanup, cleanup_log>>
    /\ IF ~r.raised /\ r.status = 200 THEN Proceed ELSE Fail
    /\ requested' = Append(requested, "delete_book")
    /\ UNCHANGED <<created_id, edge_case_data, edge_test_data>>
    /\ UNCHANGED otherThanTest

\* delete_book(created_book['id']) is called: as a clean-up inside
\* try/except, where an exception is logged as a warning and the answer is
\* not looked at, or as a step of the test whose answer must be 200.
DoDelete(r) ==
    /\ AtStep("delete")
    /\ deleted' = deleted \cup {Val(created_id)}
    /\ IF CurrentStep.guarded
       THEN /\ cleanup' = r
            /\ cleanup_log' = ClientLog(r) \o (IF r.raised THEN <<"warning">> ELSE <<>>)
            /\ Proceed
       ELSE /\ UNCHANGED <<cleanup, cleanup_log>>
            /\ IF ~r.raised /\ r.status = 200 THEN Proceed ELSE Fail
    /\ requested' = Append(requested, "delete_book")
    /\ UNCHANGED <<created_id, edge_case_data, edge_test_data>>
    /\ UNCHANGED otherThanTest

\* The last step is done: the test ends.
End ==
    /\ Running
    /\ position > Len(Tests[test_case].steps)
    /\ test_result' = IF body_failed THEN "failed" ELSE "passed"
    /\ UNCHANGED <<test_case, position, created_id, deleted, body_failed,
                   failed_at, cleanup, cleanup_log, edge_case_data, edge_test_data,
                   requested>>
    /\ UNCHANGED otherThanTest

TestInit ==
    /\ TestIdle /\ ClientIdle /\ GenIdle /\ FixtureIdle
    /\ ValidIdle /\ AssertIdle /\ ConfigIdle /\ CliIdle

TestNext ==
    \/ \E t \in TestNames : Begin(t)
    \/ \E name \in EdgeCaseParams, seed \in FixtureSeeds, today \in Todays :
          DoLookup(name, seed, today)
    \/ \E r \in CallResults, id \in 1..MaxCreatedId : DoCreate(r, id)
    \/ \E r \in CallResults, found \in BOOLEAN : DoList(r, found)
    \/ \E ok \in BOOLEAN : DoCheck(ok)
    \/ \E r \in CallResults : DoRead(r)
    \/ \E r \in CallResults : DoDelete(r)
    \/ End

TestSpec == TestInit /\ [][TestNext]_vars

Finished == test_result \in {"passed", "failed"}

\* C20, as stated: a test case or fixture that has finished has issued
\* delete_book for the Book it created.
C20_CreatedBookIsDeleted ==
    (Finished /\ ~IsNone(created_id)) => Val(created_id) \in deleted
\* The clean-up call failed: it raised, or it was answered with an error
\* status such as the 404 for a Book that is already deleted.
CleanupFailed == cleanup.raised \/ cleanup.status >= 400

\* C24: a failing clean-up delete_book never changes the outcome of a test:
\* the step that ends a test with a failure is never a clean-up delete, a
\* finished test has failed exactly when one of its other steps raised, the
\* clean-up step leaves the outcome as it was, and a clean-up call that
\* raised or was answered 404 is logged as a warning.
C24_CleanupNeverFailsTest ==
    /\ [](failed_at # 0 =>
            ~(Tests[test_case].steps[failed_at].kind = "delete"
                /\ Tests[test_case].steps[failed_at].guarded))
    /\ [](Finished => (test_result = "failed" <=> failed_at # 0))
    /\ [](CleanupFailed =>
            \E i \in DOMAIN cleanup_log : cleanup_log[i] = "warning")
    /\ [][(AtStep("delete") /\ CurrentStep.guarded) =>
            /\ test_result' = test_result
            /\ body_failed' = body_failed
            /\ failed_at' = failed_at]_vars

\* test_delete_book has passed although the teardown of created_book, the
\* second delete of the Book, raised.
C24_Witness ==
    /\ test_case = "test_delete_book"
    /\ test_result = "passed"
    /\ cleanup.raised
    /\ Val(created_id) \in deleted
\* The names of the cases generate_edge_case_data returns.
CaseNames(cases) == {cases.v[i].v.name : i \in DOMAIN cases.v}

\* C22: generate_edge_case_data returns cases with pairwise distinct
\* names, and test_create_book_edge_cases, for each name it selects, finds
\* the case of that name in edge_cases_data and calls create_book with that
\* case's payload.
C22_SelectedCaseIsCreated ==
    /\ \A seed \in FixtureSeeds, today \in Todays :
          Cardinality(CaseNames(edge_cases_data(seed, today)))
              = Len(edge_cases_data(seed, today).v)
    /\ (test_case = "test_create_book_edge_cases" /\ Finished) =>
          /\ ~IsNone(edge_case_data)
          /\ ~IsNone(edge_test_data)
          /\ \E seed \in FixtureSeeds, today \in Todays :
                \E i \in DOMAIN edge_cases_data(seed, today).v :
                   /\ edge_cases_data(seed, today).v[i].v.name = Val(edge_case_data)
                   /\ edge_cases_data(seed, today).v[i].v.data = Val(edge_test_data)
          /\ \E k \in DOMAIN requested : requested[k] = "create_book"
(***************************************************************************)
(* Command-line runner (run_tests.py)                                      *)
(***************************************************************************)

\* The markers a command line names: none, one or two.
MarkerChoices == {<<>>, <<"smoke">>, <<"smoke", "regression">>}

\* What parse_args returns for a command line it accepts.
Namespaces ==
    [markers : MarkerChoices, html_report : BOOLEAN, coverage : BOOLEAN,
     verbose : BOOLEAN, install_deps : BOOLEAN, clean : BOOLEAN]

\* A command line: one parse_args accepts, one it rejects (an unknown
\* option, --markers with no value), or one that asks for --help.
CommandLines ==
    [kind : {"parsed"}, args : Namespaces] \cup
    {[kind |-> "usage_error", args |-> NoArgs], [kind |-> "help", args |-> NoArgs]}

\* The exit codes a shell command may end with.
ReturnCodes == {0, 1, 2, 5}

\* run_command that does not pass check=True: no exit code raises.
run_command_unchecked(returncode) == TRUE

\* run_command(command, description): subprocess.run(check=True) raises
\* CalledProcessError for every exit code but 0.
run_command(returncode) == returncode = 0

files_to_clean ==
    <<"reports/*.html", "reports/*.xml", "reports/*.json", "reports/coverage/",
      "__pycache__/", "*.pyc">>

\* " or ".join(args.markers), as a sequence of words.
JoinOr(markers) ==
    [i \in 1..(2 * Len(markers) - 1) |->
        IF i % 2 = 1 THEN markers[(i + 1) \div 2] ELSE "or"]

\* build_pytest_command(args): the parts " ".join puts together, each an
\* option with the words of its quoted argument.
build_pytest_command(a) ==
    <<[opt |-> "pytest", arg |-> <<>>]>>
    \o (IF a.markers # <<>> THEN <<[opt |-> "-m", arg |-> JoinOr(a.markers)]>> ELSE <<>>)
    \o (IF a.verbose THEN <<[opt |-> "-v", arg |-> <<>>]>> ELSE <<>>)
    \o (IF a.html_report
        THEN <<[opt |-> "--html=reports/report.html --self-contained-html", arg |-> <<>>]>>
        ELSE <<>>)
    \o (IF a.coverage
        THEN <<[opt |-> "--cov=utils --cov-report=html:reports/coverage --cov-report=term-missing",
                arg |-> <<>>]>>
        ELSE <<>>)
    \o <<[opt |-> "--tb=short", arg |-> <<>>], [opt |-> "--disable-warnings", arg |-> <<>>]>>

\* The process ends.
Exit(cause, status) ==
    /\ stage' = "exited"
    /\ exit_cause' = cause
    /\ exit_status' = status

\* Where main goes on after the install step.
AfterInstall(a) == IF a.clean THEN "clean" ELSE "mkdir"

\* main starts: parse_args reads the command line, and exits the process
\* itself for --help (status 0) and for a command line it rejects
\* (status 2).
Main(cmdline) ==
    /\ stage = "idle"
    /\ exit_cause = "none"
    /\ CASE cmdline.kind = "usage_error" -> Exit("argparse", 2) /\ UNCHANGED args
         [] cmdline.kind = "help" -> Exit("argparse", 0) /\ UNCHANGED args
         [] cmdline.kind = "parsed" ->
               /\ args' = cmdline.args
               /\ stage' = IF cmdline.args.install_deps THEN "install"
                           ELSE AfterInstall(cmdline.args)
               /\ UNCHANGED <<exit_cause, exit_status>>
    /\ UNCHANGED <<installed, clean_failed, pytest_cmd, success, exit_codes>>
    /\ UNCHANGED otherThanCli

\* --install-deps: install_dependencies(); main exits with 1 when it fails.
InstallDependencies(returncode) ==
    /\ stage = "install"
    /\ exit_codes' = [exit_codes EXCEPT !.install = [ran |-> TRUE, code |-> returncode]]
    /\ IF run_command(returncode)
       THEN /\ installed' = "ok"
            /\ stage' = AfterInstall(args)
            /\ UNCHANGED <<exit_cause, exit_status>>
       ELSE /\ installed' = "failed"
            /\ Exit("sys.exit", 1)
    /\ UNCHANGED <<args, clean_failed, pytest_cmd, success>>
    /\ UNCHANGED otherThanCli

\* --clean: clean_generated_files() runs one rm command for each pattern
\* and does not look at what run_command returns.
CleanGeneratedFiles(returncodes) ==
    /\ stage = "clean"
    /\ clean_failed' = {i \in DOMAIN files_to_clean : ~run_command(returncodes[i])}
    /\ stage' = "mkdir"
    /\ UNCHANGED <<args, installed, pytest_cmd, success, exit_codes, exit_cause,
                   exit_status>>
    /\ UNCHANGED otherThanCli

\* Path("reports").mkdir(exist_ok=True), then build_pytest_command(args):
\* an OSError from mkdir (reports is a file, the directory is read-only) is
\* caught nowhere and ends the process with status 1.
MakeReportsDir(made) ==
    /\ stage = "mkdir"
    /\ IF made
       THEN /\ pytest_cmd' = build_pytest_command(args)
            /\ stage' = "tests"
            /\ UNCHANGED <<exit_cause, exit_status>>
       ELSE /\ Exit("exception", 1)
            /\ UNCHANGED pytest_cmd
    /\ UNCHANGED <<args, installed, clean_failed, success, exit_codes>>
    /\ UNCHANGED otherThanCli

\* run_command(pytest_cmd, ...): main returns when it succeeded, and exits
\* with 1 when it did not.
RunTests(returncode) ==
    /\ stage = "tests"
    /\ exit_codes' = [exit_codes EXCEPT !.tests = [ran |-> TRUE, code |-> returncode]]
    /\ IF run_command(returncode)
       THEN success' = "ok" /\ Exit("returned", 0)
       ELSE success' = "failed" /\ Exit("sys.exit", 1)
    /\ UNCHANGED <<args, installed, clean_failed, pytest_cmd>>
    /\ UNCHANGED otherThanCli

CliInit ==
    /\ CliIdle /\ ClientIdle /\ GenIdle /\ FixtureIdle
    /\ ValidIdle /\ AssertIdle /\ ConfigIdle /\ TestIdle

CliNext ==
    \/ \E cmdline \in CommandLines : Main(cmdline)
    \/ \E returncode \in ReturnCodes : InstallDependencies(returncode)
    \/ \E returncodes \in [DOMAIN files_to_clean -> {0, 1}] :
          CleanGeneratedFiles(returncodes)
    \/ \E made \in BOOLEAN : MakeReportsDir(made)
    \/ \E returncode \in ReturnCodes : RunTests(returncode)

CliSpec == CliInit /\ [][CliNext]_vars

Exited == stage = "exited"

\* The command was run and ended with an exit code other than 0.
Failed(command) == command.ran /\ command.code # 0

\* A requested install step failed, or the test run reported a failure.
StepFailed == Failed(exit_codes.install) \/ Failed(exit_codes.tests)

\* The clean step goes on to the tests whatever its commands return, and
\* leaves the outcome of the other steps as it was.
CleanChangesNothing ==
    stage = "clean" =>
        /\ stage' = "mkdir"
        /\ UNCHANGED <<installed, success, exit_codes, exit_cause, exit_status>>

\* C21, as stated: main exits with a non-zero status exactly when a
\* requested install step failed or the test run reported a failure; when
\* the install step fails the tests are never run; and a failure of the
\* clean step changes neither whether the tests run nor the exit status.
C21_ExitStatusAsStated ==
    /\ [](Exited => (exit_status # 0 <=> StepFailed))
    /\ [](Failed(exit_codes.install) => ~exit_codes.tests.ran)
    /\ [][CleanChangesNothing]_vars

\* C21, amended: for a command line that parse_args accepts, and when the
\* reports directory can be made, main exits with a non-zero status exactly
\* when a requested install step failed or the test run reported a failure;
\* a rejected command line exits with 2 and an error from making the
\* reports directory with 1, both before any test runs; when the install
\* step fails the tests are never run; and a failure of the clean step
\* changes neither whether the tests run nor the exit status.
C21_ExitStatus ==
    /\ []((Exited /\ exit_cause \in {"returned", "sys.exit"}) =>
            (exit_status # 0 <=> StepFailed))
    /\ []((Exited /\ exit_cause = "argparse") =>
            (exit_status \in {0, 2} /\ ~exit_codes.install.ran /\ ~exit_codes.tests.ran))
    /\ []((Exited /\ exit_cause = "exception") =>
            (exit_status = 1 /\ ~StepFailed /\ ~exit_codes.tests.ran))
    /\ [](Failed(exit_codes.install) => ~exit_codes.tests.ran)
    /\ [](exit_codes.tests.ran => (exit_codes.install.ran <=> args.install_deps))
    /\ [][CleanChangesNothing]_vars

\* Every clean command failed, the install step went through, the tests
\* were run and failed, and main has exited with 1.
C21_Witness ==
    /\ Exited
    /\ installed = "ok"
    /\ args.install_deps /\ args.clean
    /\ clean_failed = DOMAIN files_to_clean
    /\ exit_codes.tests = [ran |-> TRUE, code |-> 1]
    /\ success = "failed"
    /\ exit_status = 1

====
